---- MODULE Spec2Model ----
(***************************************************************************)
(* Smart ETL: PipelineGenerator, FeatureEngineer and DataProfiler as state *)
(* machines.  Every object field is a variable, every public method is an  *)
(* action, and the pure helpers are operators.                             *)
(***************************************************************************)
EXTENDS Integers, Sequences, FiniteSets, TLC

VARIABLES
    \* PipelineGenerator (pipeline_generator.py)
    pipeline_steps,      \* self.pipeline_steps: list of step dicts
    pipeline_metadata,   \* self.pipeline_metadata: dict, as a sequence of entries
    clock,               \* what datetime.now() returns
    fs_dirs,             \* directories that exist on disk
    fs_files,            \* path -> content of the files written so far
    pg_ret,              \* [op, value]: the last call and what it returned
                         \* (save_pipeline: also its filepath and format)
    pg_added,            \* history: the (name, function, parameters) given to add_step
    \* DataProfiler (data_cleaner.py)
    profile_report,      \* self.profile_report: <<>> for the empty dict, else <<profile>>
    data_types,          \* self.data_types: sequence of [column, label] in insertion order
    dp_data,             \* the table given to the last analyze call
    dp_ret,              \* [op, value]: the last call and what it returned
    dp_seen,             \* history: a table analysed earlier and the labels it got
    dp_input,            \* the caller's table as the last analyze call left it
    \* FeatureEngineer (feature_engineer.py)
    max_features,        \* self.max_features
    created_features,    \* self.created_features: list of column names
    selected_features,   \* self.selected_features: list of column names
    feature_importance,  \* self.feature_importance: sequence of [feature, score]
    fe_data,             \* [table, target, after]: the arguments of the last create_features
                         \* call, and the caller's table as the call left it
    fe_ret,              \* [op, raised, selection, value]: the last call and its outcome
    fe_calls,            \* create_features calls made on the instance
    \* Config (utils-config.py)
    DEFAULTS,            \* Config.DEFAULTS: the class attribute, a dict
    config,              \* self.config: a dict
    cfg_shared,          \* top-level keys whose value is one object in both dicts
    cfg_before,          \* history: self.config before the last load_config call
    cfg_ret,             \* [op, file]: the last call and the file it was given
    \* utils-helpers.py
    vd_ret               \* [op, df, required_columns, min_rows, value]: the last
                         \* validate_dataframe call and what it returned

dpVars == <<profile_report, data_types, dp_data, dp_ret, dp_seen, dp_input>>

feVars == <<max_features, created_features, selected_features, feature_importance,
            fe_data, fe_ret, fe_calls>>

hlpVars == <<vd_ret>>

cfgVars == <<DEFAULTS, config, cfg_shared, cfg_before, cfg_ret>>

pgVars == <<pipeline_steps, pipeline_metadata, clock, fs_dirs, fs_files, pg_ret, pg_added>>

\* --------------------------------------------------------------------------
\* Bounds of the model
\* --------------------------------------------------------------------------
MaxSteps == 2
MaxCols == 2
MaxCalls == 2
MaxScore == 1

\* --------------------------------------------------------------------------
\* Generic helpers
\* --------------------------------------------------------------------------
RECURSIVE Flatten(_)
Flatten(ss) == IF ss = <<>> THEN <<>> ELSE Head(ss) \o Flatten(Tail(ss))

RECURSIVE SumSeq(_)
SumSeq(s) == IF s = <<>> THEN 0 ELSE Head(s) + SumSeq(Tail(s))

\* --------------------------------------------------------------------------
\* PipelineGenerator
\* --------------------------------------------------------------------------
\* A parameters dict is a sequence of entries in insertion order; an entry is
\* [key, items] where items is a sequence of tuples of strings:
\*   {'imputation': {'age': 'median'}}          -> items = << <<"age","median">> >>
\*   {'temporal_features': ['date']}            -> items = << <<"date">> >>
\*   {'interaction_features': [('a','b')]}      -> items = << <<"a","b">> >>
\*   {'rows_analyzed': 3}                       -> items = << <<"3">> >>
ParamsCleaning ==
    << [key |-> "imputation", items |-> << <<"age", "median">>, <<"city", "mode">> >>],
       [key |-> "encoding",   items |-> << <<"city", "one_hot">> >>] >>
ParamsFeatures ==
    << [key |-> "temporal_features",    items |-> << <<"date">> >>],
       [key |-> "interaction_features", items |-> << <<"a", "b">> >>] >>
ParamsProfiling == << [key |-> "rows_analyzed", items |-> << <<"3">> >>] >>

\* The add_step calls the model makes: <<step_name, step_function, parameters>>.
StepPool ==
    { <<"Data Profiling", "data_profiling", ParamsProfiling>>,
      <<"Data Cleaning", "data_cleaning", ParamsCleaning>>,
      <<"Feature Engineering", "feature_engineering", ParamsFeatures>>,
      <<"Custom", "custom_step", ParamsCleaning>> }

\* The instants datetime.now() returns.
Times == {0, 1}

\* A file path, split as os.path.dirname / os.path.basename see it.
PathPool ==
    { [dir |-> "out",  base |-> "pipeline.out"],
      [dir |-> "",     base |-> "advanced_pipeline.py"],
      [dir |-> "/ro",  base |-> "pipeline.out"],
      [dir |-> "/sys", base |-> "pipeline.out"] }
\* Directories the process may not create, and directories it may not write into.
UncreatableDirs == {"/ro"}
UnwritableDirs == {"/sys"}
Formats == {"python", "json", "pickle", "yaml"}
NoFile == [format |-> "none", lines |-> <<>>, steps |-> <<>>, metadata |-> <<>>, generated_at |-> 0]

PGInit ==
    /\ pipeline_steps = <<>>
    /\ pipeline_metadata = <<>>
    /\ clock = 0
    /\ fs_dirs = {}
    /\ fs_files = [p \in PathPool |-> NoFile]
    /\ pg_ret = [op |-> "init", value |-> <<>>]
    /\ pg_added = <<>>

\* datetime.now() moves on between calls.
Tick ==
    /\ \E t \in Times : t > clock /\ clock' = t
    /\ UNCHANGED <<pipeline_steps, pipeline_metadata, fs_dirs, fs_files, pg_ret, pg_added>>
    /\ UNCHANGED <<dpVars, feVars, cfgVars, hlpVars>>

MakeStep(step_name, step_function, parameters, now) ==
    [name |-> step_name, function |-> step_function,
     parameters |-> parameters, timestamp |-> now]

\* A step equal in name, function and parameters to a recorded one is dropped.
AppendStepDedup(steps, step) ==
    IF \E i \in DOMAIN steps :
          /\ steps[i].name = step.name
          /\ steps[i].function = step.function
          /\ steps[i].parameters = step.parameters
      THEN steps ELSE Append(steps, step)

\* self.pipeline_steps.append(step)
AppendStep(steps, step) == Append(steps, step)

add_step(step_name, step_function, parameters) ==
    /\ Len(pipeline_steps) < MaxSteps
    /\ pipeline_steps' =
          AppendStep(pipeline_steps, MakeStep(step_name, step_function, parameters, clock))
    /\ pg_added' = Append(pg_added, <<step_name, step_function, parameters>>)
    /\ pg_ret' = [op |-> "add_step", value |-> <<>>]
    /\ UNCHANGED <<pipeline_metadata, clock, fs_dirs, fs_files>>
    /\ UNCHANGED <<dpVars, feVars, cfgVars, hlpVars>>

AddStep ==
    \E a \in StepPool : add_step(a[1], a[2], a[3])

\* _generate_cleaning_code: one fillna line per imputed column with a known
\* strategy, three lines per one-hot column, two per label-encoded column.
ImputationLine(item) ==
    LET col == item[1]  strategy == item[2] IN
    IF strategy = "median"
      THEN << "    processed_data['" \o col \o "'].fillna(processed_data['" \o col \o "'].median(), inplace=True)" >>
    ELSE IF strategy = "mean"
      THEN << "    processed_data['" \o col \o "'].fillna(processed_data['" \o col \o "'].mean(), inplace=True)" >>
    ELSE IF strategy = "mode"
      THEN << "    processed_data['" \o col \o "'].fillna(processed_data['" \o col \o "'].mode()[0], inplace=True)" >>
    ELSE <<>>

EncodingLines(item) ==
    LET col == item[1]  method == item[2] IN
    IF method = "one_hot"
      THEN << "    " \o col \o "_encoded = pd.get_dummies(processed_data['" \o col \o "'], prefix='" \o col \o "')",
              "    processed_data = pd.concat([processed_data, " \o col \o "_encoded], axis=1)",
              "    processed_data.drop('" \o col \o "', axis=1, inplace=True)" >>
    ELSE IF method = "label"
      THEN << "    le = LabelEncoder()",
              "    processed_data['" \o col \o "'] = le.fit_transform(processed_data['" \o col \o "'].astype(str))" >>
    ELSE <<>>

\* params[key] for the entries holding that key ('key in params' is their existence).
ItemsOf(params, key) ==
    Flatten([i \in DOMAIN params |-> IF params[i].key = key THEN params[i].items ELSE <<>>])

GenerateCleaningCode(step) ==
    Flatten([i \in DOMAIN ItemsOf(step.parameters, "imputation") |->
                ImputationLine(ItemsOf(step.parameters, "imputation")[i])])
    \o
    Flatten([i \in DOMAIN ItemsOf(step.parameters, "encoding") |->
                EncodingLines(ItemsOf(step.parameters, "encoding")[i])])

TemporalLines(item) ==
    LET col == item[1] IN
    << "    # Temporal features from " \o col,
       "    processed_data['" \o col \o "'] = pd.to_datetime(processed_data['" \o col \o "'])",
       "    processed_data['" \o col \o "_year'] = processed_data['" \o col \o "'].dt.year",
       "    processed_data['" \o col \o "_month'] = processed_data['" \o col \o "'].dt.month",
       "    processed_data['" \o col \o "_day'] = processed_data['" \o col \o "'].dt.day" >>

InteractionLine(item) ==
    << "    processed_data['" \o item[1] \o "_x_" \o item[2] \o "'] = processed_data['"
         \o item[1] \o "'] * processed_data['" \o item[2] \o "']" >>

GenerateFeatureEngineeringCode(step) ==
    Flatten([i \in DOMAIN ItemsOf(step.parameters, "temporal_features") |->
                TemporalLines(ItemsOf(step.parameters, "temporal_features")[i])])
    \o
    Flatten([i \in DOMAIN ItemsOf(step.parameters, "interaction_features") |->
                InteractionLine(ItemsOf(step.parameters, "interaction_features")[i])])

\* A step of an unknown function left out of the text altogether.
StepCodeSkippingUnknown(i, step) ==
    IF step.function \notin {"data_profiling", "data_cleaning", "feature_engineering"}
      THEN <<>>
      ELSE << "    # Step " \o ToString(i) \o ": " \o step.name >>
           \o (IF step.function = "data_profiling" THEN << "    # Data profiling completed" >>
               ELSE IF step.function = "data_cleaning" THEN GenerateCleaningCode(step)
               ELSE GenerateFeatureEngineeringCode(step))
           \o << "" >>

\* The lines of one step: its comment line, the lines of its function if the
\* function is a known one, and an empty line.
StepCode(i, step) ==
    << "    # Step " \o ToString(i) \o ": " \o step.name >>
    \o (IF step.function = "data_profiling" THEN << "    # Data profiling completed" >>
        ELSE IF step.function = "data_cleaning" THEN GenerateCleaningCode(step)
        ELSE IF step.function = "feature_engineering" THEN GenerateFeatureEngineeringCode(step)
        ELSE <<>>)
    \o << "" >>

\* The time of the call written into the title line as well.
CodeHeaderTimeInTitle(now) ==
    << "# Smart ETL Auto-Generated Pipeline " \o ToString(now),
       "# Generated on: " \o ToString(now),
       "# This code reproduces the entire data processing pipeline",
       "",
       "import pandas as pd",
       "import numpy as np",
       "from sklearn.impute import SimpleImputer, KNNImputer",
       "from sklearn.preprocessing import StandardScaler, LabelEncoder",
       "from sklearn.feature_selection import SelectKBest, mutual_info_classif",
       "",
       "def run_smart_etl_pipeline(data):",
       "    \"\"\"",
       "    Execute the complete Smart ETL pipeline.",
       "    \"\"\"",
       "    processed_data = data.copy()",
       "    " >>

\* The first lines of the text; the second holds datetime.now() of the call.
CodeHeader(now) ==
    << "# Smart ETL Auto-Generated Pipeline",
       "# Generated on: " \o ToString(now),
       "# This code reproduces the entire data processing pipeline",
       "",
       "import pandas as pd",
       "import numpy as np",
       "from sklearn.impute import SimpleImputer, KNNImputer",
       "from sklearn.preprocessing import StandardScaler, LabelEncoder",
       "from sklearn.feature_selection import SelectKBest, mutual_info_classif",
       "",
       "def run_smart_etl_pipeline(data):",
       "    \"\"\"",
       "    Execute the complete Smart ETL pipeline.",
       "    \"\"\"",
       "    processed_data = data.copy()",
       "    " >>

CodeFooter ==
    << "    return processed_data",
       "",
       "# Execute pipeline",
       "# processed_data = run_smart_etl_pipeline(your_dataframe)" >>

\* The rendered text as its sequence of lines (the code joins them with "\n").
GeneratePythonCode(steps, now) ==
    CodeHeader(now)
    \o Flatten([i \in DOMAIN steps |-> StepCode(i, steps[i])])
    \o CodeFooter

generate_python_code ==
    /\ pg_ret' = [op |-> "generate_python_code",
                  value |-> GeneratePythonCode(pipeline_steps, clock)]
    /\ UNCHANGED <<pipeline_steps, pipeline_metadata, clock, fs_dirs, fs_files, pg_added>>
    /\ UNCHANGED <<dpVars, feVars, cfgVars, hlpVars>>

\* os.makedirs(os.path.dirname(filepath), exist_ok=True): an empty directory name
\* raises FileNotFoundError, a directory that cannot be created raises OSError.
MakedirsRaises(dir) == dir = "" \/ dir \in UncreatableDirs

\* open() reached whatever the format is.
OpenRaisesAnyFormat(dir, format) == dir \in UnwritableDirs
\* open(filepath, 'w') / open(filepath, 'wb'): reached for a known format only.
OpenRaises(dir, format) == format \in {"python", "json", "pickle"} /\ dir \in UnwritableDirs

\* The Python type of a parameter value, by the shape its key stands for.
ValueKind(entry) ==
    IF entry.key \in {"imputation", "encoding"} THEN "dict"
    ELSE IF entry.key = "interaction_features" THEN "list of tuple"
    ELSE IF entry.key = "temporal_features" THEN "list"
    ELSE "int"

\* json.dump: a dict is written as an object, a list and a tuple as an array,
\* an int as a number.
JsonType(kind) ==
    CASE kind = "dict" -> "object"
      [] kind \in {"list of tuple", "list of list"} -> "array of arrays"
      [] kind = "list" -> "array"
      [] OTHER -> "number"
\* json.load: an object is read as a dict, an array as a list, a number as an int.
PythonType(json) ==
    CASE json = "object" -> "dict"
      [] json = "array of arrays" -> "list of list"
      [] json = "array" -> "list"
      [] OTHER -> "int"

\* The 'steps' member of the document json.dump writes.
JsonDumpSteps(steps) ==
    [i \in DOMAIN steps |->
        [name |-> steps[i].name, function |-> steps[i].function,
         parameters |->
            [k \in DOMAIN steps[i].parameters |->
                [key |-> steps[i].parameters[k].key,
                 json |-> JsonType(ValueKind(steps[i].parameters[k])),
                 items |-> steps[i].parameters[k].items]],
         timestamp |-> steps[i].timestamp]]
\* json.load of that member: a list of dicts, each value with its Python type.
JsonLoadSteps(doc) ==
    [i \in DOMAIN doc |->
        [name |-> doc[i].name, function |-> doc[i].function,
         parameters |->
            [k \in DOMAIN doc[i].parameters |->
                [key |-> doc[i].parameters[k].key,
                 kind |-> PythonType(doc[i].parameters[k].json),
                 items |-> doc[i].parameters[k].items]],
         timestamp |-> doc[i].timestamp]]

\* What each format writes; an unknown format writes nothing.
FileWritten(format, steps, metadata, now) ==
    IF format = "python"
      THEN [format |-> "python", lines |-> GeneratePythonCode(steps, now),
            steps |-> <<>>, metadata |-> <<>>, generated_at |-> 0]
    ELSE IF format = "json"
      THEN [format |-> "json", lines |-> <<>>,
            steps |-> JsonDumpSteps(steps), metadata |-> metadata, generated_at |-> now]
    ELSE IF format = "pickle"
      THEN [format |-> "pickle", lines |-> <<>>,
            steps |-> steps, metadata |-> metadata, generated_at |-> 0]
    ELSE NoFile

\* return True placed after the try block: reached on failure too.
SavePipelineReturnAfterTry(filepath, format) == TRUE
\* True at the end of the try block, False from the except clause.
SavePipelineReturn(filepath, format) ==
    ~MakedirsRaises(filepath.dir) /\ ~OpenRaises(filepath.dir, format)

save_pipeline(filepath, format) ==
    /\ IF MakedirsRaises(filepath.dir)
         THEN UNCHANGED <<fs_dirs, fs_files>>
         ELSE /\ fs_dirs' = fs_dirs \cup {filepath.dir}
              /\ fs_files' =
                   IF format \in {"python", "json", "pickle"}
                        /\ ~OpenRaises(filepath.dir, format)
                     THEN [fs_files EXCEPT ![filepath] =
                              FileWritten(format, pipeline_steps, pipeline_metadata, clock)]
                     ELSE fs_files
    /\ pg_ret' = [op |-> "save_pipeline", value |-> SavePipelineReturn(filepath, format),
                  filepath |-> filepath, format |-> format]
    /\ UNCHANGED <<pipeline_steps, pipeline_metadata, clock, pg_added>>
    /\ UNCHANGED <<dpVars, feVars, cfgVars, hlpVars>>

\* The save_pipeline calls the model makes: the text formats and an unknown
\* format into a directory that can be made, and each way of failing with a
\* format that reaches it.
SaveCalls ==
    { c \in PathPool \X Formats :
        \/ c[1].dir = "out" /\ c[2] \in {"python", "json", "yaml"}
        \/ c[1].dir = "" /\ c[2] \in {"python", "json", "yaml"}
        \/ c[1].dir = "/ro" /\ c[2] = "json"
        \/ c[1].dir = "/sys" /\ c[2] \in {"pickle", "yaml"} }

SavePipeline ==
    \E c \in SaveCalls : save_pipeline(c[1], c[2])

\* str(value) of a parameter value, by the shape its key stands for.
RECURSIVE JoinItems(_, _)
JoinItems(items, kind) ==
    IF items = <<>> THEN ""
    ELSE (IF kind = "dict" THEN "'" \o Head(items)[1] \o "': '" \o Head(items)[2] \o "'"
          ELSE IF kind = "pairs" THEN "('" \o Head(items)[1] \o "', '" \o Head(items)[2] \o "')"
          ELSE IF kind = "list" THEN "'" \o Head(items)[1] \o "'"
          ELSE Head(items)[1])
         \o (IF Tail(items) = <<>> THEN "" ELSE ", " \o JoinItems(Tail(items), kind))

StrValue(entry) ==
    IF entry.key \in {"imputation", "encoding"} THEN "{" \o JoinItems(entry.items, "dict") \o "}"
    ELSE IF entry.key = "interaction_features" THEN "[" \o JoinItems(entry.items, "pairs") \o "]"
    ELSE IF entry.key = "temporal_features" THEN "[" \o JoinItems(entry.items, "list") \o "]"
    ELSE JoinItems(entry.items, "scalar")

StepReport(i, step) ==
    << "Step " \o ToString(i) \o ": " \o step.name,
       "  Function: " \o step.function,
       "  Timestamp: " \o ToString(step.timestamp) >>
    \o (IF step.parameters # <<>>
          THEN << "  Parameters:" >>
               \o [k \in DOMAIN step.parameters |->
                     "    " \o step.parameters[k].key \o ": " \o StrValue(step.parameters[k])]
          ELSE <<>>)
    \o << "" >>

GenerateReport(steps, now) ==
    << "============================================================",
       " SMART ETL PIPELINE REPORT",
       "============================================================",
       "Total Steps: " \o ToString(Len(steps)),
       "Generated: " \o ToString(now),
       "" >>
    \o Flatten([i \in DOMAIN steps |-> StepReport(i, steps[i])])

PipelineGenerator_generate_report ==
    /\ pg_ret' = [op |-> "generate_report", value |-> GenerateReport(pipeline_steps, clock)]
    /\ UNCHANGED <<pipeline_steps, pipeline_metadata, clock, fs_dirs, fs_files, pg_added>>
    /\ UNCHANGED <<dpVars, feVars, cfgVars, hlpVars>>

CountFunction(steps, f) == Cardinality({i \in DOMAIN steps : steps[i].function = f})

GetPipelineSummary(steps) ==
    [total_steps    |-> Len(steps),
     step_types     |-> [i \in DOMAIN steps |-> steps[i].function],
     cleaning_steps |-> CountFunction(steps, "data_cleaning"),
     feature_steps  |-> CountFunction(steps, "feature_engineering"),
     first_step     |-> IF steps # <<>> THEN <<steps[1].timestamp>> ELSE <<>>,
     last_step      |-> IF steps # <<>> THEN <<steps[Len(steps)].timestamp>> ELSE <<>>]

get_pipeline_summary ==
    /\ pg_ret' = [op |-> "get_pipeline_summary", value |-> GetPipelineSummary(pipeline_steps)]
    /\ UNCHANGED <<pipeline_steps, pipeline_metadata, clock, fs_dirs, fs_files, pg_added>>
    /\ UNCHANGED <<dpVars, feVars, cfgVars, hlpVars>>

PGNext ==
    \/ Tick
    \/ AddStep
    \/ generate_python_code
    \/ SavePipeline
    \/ PipelineGenerator_generate_report
    \/ get_pipeline_summary

\* --------------------------------------------------------------------------
\* Tables (pandas.DataFrame)
\* --------------------------------------------------------------------------
\* A cell is [nan, n, d, s]: the rational n/d (d > 0, lowest terms) of a numeric
\* cell, 0 or 1 of a bool cell, the date yyyymmdd in n of a datetime cell, the
\* string s of an object cell; nan marks the missing cell (NaN, None, NaT).
\* A column is [name, dtype, cells]; a table is its columns in table order.
Abs(x) == IF x < 0 THEN -x ELSE x

RECURSIVE Gcd(_, _)
Gcd(a, b) == IF b = 0 THEN a ELSE Gcd(b, a % b)

NaN == [nan |-> TRUE, n |-> 0, d |-> 1, s |-> ""]
Frac(n, d) ==
    LET g == Gcd(Abs(n), Abs(d))
        sg == IF d < 0 THEN -1 ELSE 1
    IN  [nan |-> FALSE, n |-> sg * (n \div g), d |-> sg * (d \div g), s |-> ""]
Num(n) == Frac(n, 1)
Str(s) == [nan |-> FALSE, n |-> 0, d |-> 1, s |-> s]

Column(name, dtype, cells) == [name |-> name, dtype |-> dtype, cells |-> cells]

NumCols(data) == Len(data)
NumRows(data) == IF data = <<>> THEN 0 ELSE Len(data[1].cells)
ColumnNames(data) == [i \in DOMAIN data |-> data[i].name]

\* Rational arithmetic on numeric cells.
RatLess(x, y) == x.n * y.d < y.n * x.d
RatAdd(x, y) == Frac(x.n * y.d + y.n * x.d, x.d * y.d)
RatSub(x, y) == Frac(x.n * y.d - y.n * x.d, x.d * y.d)
RatMul(x, y) == Frac(x.n * y.n, x.d * y.d)
RatDiv(x, y) == Frac(x.n * y.d, x.d * y.n)
\* The second argument, whatever the first is.
RatMaxSecond(x, y) == y
RatMax(x, y) == IF RatLess(x, y) THEN y ELSE x

\* pandas.api.types.is_numeric_dtype: bool counts as numeric.
IsNumericDtype(dtype) == dtype \in {"int32", "int64", "float64", "bool"}
\* select_dtypes(include=[np.number]): bool does not.
IsNumberDtype(dtype) == dtype \in {"int32", "int64", "float64"}

\* The largest nanosecond count a Timestamp holds. The value stands in for
\* 2^63 - 1: numeric cells above it stand for numbers that overflow a
\* Timestamp, those up to it for instants within 1970-01-01.
TimestampMaxNs == 1000

\* The strings the date parser accepts, with the date each one denotes.
DateStrings == {"2023-01-15", "2023-04-02", "2024-12-31"}
ParseDate(s) ==
    CASE s = "2023-01-15" -> 20230115
      [] s = "2023-04-02" -> 20230402
      [] s = "2024-12-31" -> 20241231

\* pd.to_datetime(series) with errors='raise': whether it returns.
ToDatetimeOk(col) ==
    CASE col.dtype = "datetime64" -> TRUE
      [] col.dtype \in {"int32", "int64", "float64"} ->
            \A i \in DOMAIN col.cells :
                col.cells[i].nan \/ Abs(col.cells[i].n) <= TimestampMaxNs * col.cells[i].d
      [] col.dtype = "bool" -> FALSE
      [] OTHER ->
            \A i \in DOMAIN col.cells :
                col.cells[i].nan \/ col.cells[i].s \in DateStrings

\* pd.to_datetime(series): the converted column, where it returns.
ToDatetimeCell(dtype, c) ==
    IF c.nan THEN NaN
    ELSE IF dtype = "datetime64" THEN c
    ELSE IF dtype = "object" THEN Num(ParseDate(c.s))
    ELSE IF c.n < 0 THEN Num(19691231) ELSE Num(19700101)

ToDatetime(col) ==
    Column(col.name, "datetime64",
           [i \in DOMAIN col.cells |-> ToDatetimeCell(col.dtype, col.cells[i])])

MissingCount(col) == Cardinality({i \in DOMAIN col.cells : col.cells[i].nan})
\* Series.nunique(): the distinct values, missing cells dropped.
NUnique(col) == Cardinality({col.cells[i] : i \in {j \in DOMAIN col.cells : ~col.cells[j].nan}})

Row(data, r) == [i \in DOMAIN data |-> data[i].cells[r]]
\* duplicated(keep=False).sum(): every row that has an equal row, the first
\* occurrence included.
DuplicatedCountKeepFalse(data) ==
    Cardinality({r \in 1..NumRows(data) :
                   \E q \in 1..NumRows(data) : q # r /\ Row(data, q) = Row(data, r)})
\* DataFrame.duplicated().sum(): rows equal to an earlier row in every column
\* (two missing cells compare equal).
DuplicatedCount(data) ==
    Cardinality({r \in 1..NumRows(data) : \E q \in 1..(r - 1) : Row(data, q) = Row(data, r)})

\* --------------------------------------------------------------------------
\* Input tables
\* --------------------------------------------------------------------------
\* The fixture of tests/test_data_profiler.py (sample_data), 10 rows.
TestRows == 10
Numerical1 ==
    Column("numerical_1", "float64",
           [i \in 1..TestRows |-> IF i = 6 THEN NaN ELSE Num(i)])
Numerical2 ==
    Column("numerical_2", "float64",
           << Frac(105, 10), Frac(203, 10), Frac(301, 10), Frac(407, 10), Frac(502, 10),
              Frac(608, 10), Frac(704, 10), Frac(809, 10), Frac(901, 10), Frac(1005, 10) >>)
Categorical ==
    Column("categorical", "object",
           << Str("A"), Str("B"), Str("A"), Str("C"), Str("B"),
              Str("A"), Str("C"), Str("B"), Str("A"), Str("C") >>)
Text ==
    Column("text", "object",
           << Str("hello"), Str("world"), Str("test"), Str("data"), Str("science"),
              Str("ai"), Str("ml"), Str("etl"), Str("smart"), Str("feature") >>)
SampleData == << Numerical1, Numerical2, Categorical, Text >>

\* Further 10-row columns: numbers too large for a Timestamp with 10 and with
\* 9 distinct values, a bool column, a column of date strings.
Huge10 ==
    Column("huge_10", "float64", [i \in 1..TestRows |-> Num(TimestampMaxNs + 1 + i)])
Huge9 ==
    Column("huge_9", "float64",
           [i \in 1..TestRows |-> IF i = 6 THEN NaN ELSE Num(TimestampMaxNs + 1 + i)])
Flag ==
    Column("flag", "bool", [i \in 1..TestRows |-> Num(i % 2)])
Signup ==
    Column("signup", "object",
           [i \in 1..TestRows |-> IF i = 3 THEN NaN
                                  ELSE IF i % 2 = 0 THEN Str("2023-01-15") ELSE Str("2024-12-31")])
WideColumns == << Numerical1, Categorical, Text, Huge10, Huge9, Flag, Signup >>

\* A 10-row table in which row 10 repeats row 1 and row 9 agrees with row 1 in
\* its first column only, and a 10-row table of one column without any value.
OneDuplicate ==
    << Column("key", "int64", [i \in 1..TestRows |-> IF i >= 9 THEN Num(1) ELSE Num(i)]),
       Column("tag", "object", [i \in 1..TestRows |-> IF i = 9 THEN Str("y") ELSE Str("x")]) >>
AllMissing == << Column("empty", "float64", [i \in 1..TestRows |-> NaN]) >>

\* 3-row columns; 'a' and 'b' are the interaction example of the specification.
ColA == Column("a", "int64", << Num(1), Num(2), Num(3) >>)
ColB == Column("b", "int64", << Num(2), Num(0), Num(4) >>)
ColScore == Column("score", "float64", << Frac(1, 2), NaN, Num(3) >>)
ColLabel == Column("label", "object", << Str("x"), Str("y"), Str("x") >>)
ColOrderDate ==
    Column("order_date", "object", << Str("2023-01-15"), Str("2023-04-02"), Str("2024-12-31") >>)
ColEventTime ==
    Column("event_time", "object", << Str("soon"), Str("later"), Str("soon") >>)
\* 4-row columns; 'v' is the rolling-mean example of the specification.
ColV == Column("v", "int64", << Num(10), Num(20), Num(30), Num(40) >>)
ColW == Column("w", "float64", << Num(1), Frac(3, 2), Num(2), Num(2) >>)
ColZ == Column("z", "int64", << Num(0), Num(1), Num(0), Num(5) >>)
\* 3-row columns whose names hold 'date' or 'time' in capitals or inside a
\* word, and one whose name holds neither.
ColOrderDateUpper ==
    Column("Order_DATE", "object", << Str("2023-04-02"), Str("2023-01-15"), Str("2024-12-31") >>)
ColData ==
    Column("data", "object", << Str("2023-01-15"), Str("2023-04-02"), Str("2024-12-31") >>)
ColUpdated == Column("updated", "int64", << Num(1), Num(2), Num(3) >>)
ColTimeStamp == Column("TimeStamp", "object", << Str("now"), Str("then"), Str("now") >>)
ShortColumns == << ColA, ColB, ColScore, ColLabel, ColOrderDate, ColEventTime >>

\* The tables of 1..width columns of a pool, the columns in the pool's order.
Pick(pool, chosen) ==
    LET F[i \in 0..Len(pool)] ==
            IF i = 0 THEN <<>>
            ELSE IF i \in chosen THEN Append(F[i - 1], pool[i]) ELSE F[i - 1]
    IN  F[Len(pool)]
TablesOf(pool, width) ==
    { Pick(pool, chosen) :
        chosen \in {c \in SUBSET DOMAIN pool : Cardinality(c) \in 1..width} }

\* String columns at the limits of the categorical rule. 'half' has 5 distinct
\* values in 10 rows; 'sparse' has 4 distinct values and 2 missing cells in 10
\* rows; the 'codes' columns have 100 and 99 distinct values in 201 rows.
Half ==
    Column("half", "object",
           [i \in 1..TestRows |-> Str("h" \o ToString(i % (TestRows \div 2)))])
Sparse ==
    Column("sparse", "object",
           [i \in 1..TestRows |-> IF i <= 2 THEN NaN ELSE Str("s" \o ToString(i % 4))])
LongRows == 2 * 100 + 1
Codes(name, distinct) ==
    Column(name, "object", [i \in 1..LongRows |-> Str("c" \o ToString(i % distinct))])
BoundaryTables ==
    { << Half, Sparse >>, << Codes("codes_100", 100), Codes("codes_99", 99) >> }

\* The tables analyze is given: the fixture, its columns mixed with the other
\* 10-row columns, one table whose columns are not in the pool's order, and
\* the tables at the limits of the categorical rule.
ProfilerTables ==
    TablesOf(WideColumns, MaxCols)
      \cup {SampleData, << Text, Flag, Numerical1 >>, OneDuplicate, AllMissing}
      \cup BoundaryTables

\* --------------------------------------------------------------------------
\* DataProfiler
\* --------------------------------------------------------------------------
NumericCategoricalBelow == 10
CategoricalMaxUnique == 100

IsDatetimeColumn(series) ==
    IF series.dtype = "datetime64" THEN TRUE ELSE ToDatetimeOk(series)

\* 100 distinct values still accepted.
IsCategoricalColumnUpTo100(series) ==
    IF series.dtype = "object"
      THEN 2 * NUnique(series) < Len(series.cells) /\ NUnique(series) <= CategoricalMaxUnique
      ELSE FALSE

\* unique_ratio < 0.5 and nunique < 100, for object columns only.
IsCategoricalColumn(series) ==
    IF series.dtype = "object"
      THEN 2 * NUnique(series) < Len(series.cells) /\ NUnique(series) < CategoricalMaxUnique
      ELSE FALSE

\* The numeric rule tried before the datetime rule.
InferLabelNumericFirst(col_data) ==
    IF IsNumericDtype(col_data.dtype)
      THEN (IF NUnique(col_data) < NumericCategoricalBelow THEN "categorical" ELSE "numerical")
    ELSE IF IsDatetimeColumn(col_data) THEN "datetime"
    ELSE IF IsCategoricalColumn(col_data) THEN "categorical"
    ELSE "text"

InferLabel(col_data) ==
    IF IsDatetimeColumn(col_data) THEN "datetime"
    ELSE IF IsCategoricalColumn(col_data) THEN "categorical"
    ELSE IF IsNumericDtype(col_data.dtype)
      THEN (IF NUnique(col_data) < NumericCategoricalBelow THEN "categorical" ELSE "numerical")
    ELSE "text"

\* type_mapping starts empty and gets one entry per column, in table order.
\* type_mapping taken over from self.data_types instead of starting empty.
InferDataTypesMerging(data, old_types) ==
    SelectSeq(old_types, LAMBDA e : \A i \in DOMAIN data : data[i].name # e.column)
    \o [i \in DOMAIN data |-> [column |-> data[i].name, label |-> InferLabel(data[i])]]

Labels == [data \in ProfilerTables |-> [i \in DOMAIN data |-> InferLabel(data[i])]]

InferDataTypes(data, old_types) ==
    [i \in DOMAIN data |-> [column |-> data[i].name, label |-> Labels[data][i]]]

GetOverview(data) ==
    [num_rows |-> NumRows(data),
     num_columns |-> NumCols(data),
     memory_usage |-> "<deep memory> MB",  \* the footprint is the interpreter's, not the table's
     duplicate_rows |-> DuplicatedCount(data)]

MissingCounts(data) == [i \in DOMAIN data |-> MissingCount(data[i])]

\* missing_count[missing_count > 1]
MoreThanOneEntries(data, counts) ==
    LET keep == SelectSeq([i \in DOMAIN data |-> i], LAMBDA i : counts[i] > 1)
    IN  [k \in DOMAIN keep |-> [column |-> data[keep[k]].name, count |-> counts[keep[k]]]]

\* missing_count[missing_count > 0]
PositiveEntries(data, counts) ==
    LET keep == SelectSeq([i \in DOMAIN data |-> i], LAMBDA i : counts[i] > 0)
    IN  [k \in DOMAIN keep |-> [column |-> data[keep[k]].name, count |-> counts[keep[k]]]]

\* The per-column percentage taken over the cells of the table, not the rows.
AnalyzeMissingValuesPerCell(data) ==
    LET missing_count == MissingCounts(data)
        with_missing == PositiveEntries(data, missing_count)
    IN  [total_missing |-> SumSeq(missing_count),
         missing_percentage_total |->
             Frac(SumSeq(missing_count) * 100, NumRows(data) * NumCols(data)),
         columns_missing |-> with_missing,
         columns_missing_percentage |->
             [k \in DOMAIN with_missing |->
                 [column |-> with_missing[k].column,
                  percentage |-> Frac(with_missing[k].count * 100,
                                      NumRows(data) * NumCols(data))]]]

\* missing_count / len(data) * 100 per column, the positive entries kept.
AnalyzeMissingValues(data) ==
    LET missing_count == MissingCounts(data)
        with_missing == PositiveEntries(data, missing_count)
    IN  [total_missing |-> SumSeq(missing_count),
         missing_percentage_total |->
             Frac(SumSeq(missing_count) * 100, NumRows(data) * NumCols(data)),
         columns_missing |-> with_missing,
         columns_missing_percentage |->
             [k \in DOMAIN with_missing |->
                 [column |-> with_missing[k].column,
                  percentage |-> Frac(with_missing[k].count * 100, NumRows(data))]]]

TotalCells(data) == NumRows(data) * NumCols(data)
MissingCells(data) == SumSeq(MissingCounts(data))

\* The missing cells divided by the row count instead of the cell count.
CalculateQualityMetricsPerRow(data) ==
    LET missing_cells == MissingCells(data)
        quality_score == Frac(100 * (NumRows(data) - missing_cells), NumRows(data))
        duplicate_penalty == Frac(DuplicatedCount(data) * 10, NumRows(data))
    IN  [overall_quality_score |-> RatMax(Num(0), RatSub(quality_score, duplicate_penalty)),
         completeness_score |-> Frac(100 * (NumRows(data) - missing_cells), NumRows(data)),
         uniqueness_score |->
             Frac(100 * (NumRows(data) - DuplicatedCount(data)), NumRows(data))]

CalculateQualityMetrics(data) ==
    LET total_cells == TotalCells(data)
        missing_cells == MissingCells(data)
        quality_score == Frac(100 * (total_cells - missing_cells), total_cells)
        duplicate_penalty == Frac(DuplicatedCount(data) * 10, NumRows(data))
    IN  [overall_quality_score |-> RatMax(Num(0), RatSub(quality_score, duplicate_penalty)),
         completeness_score |-> Frac(100 * (total_cells - missing_cells), total_cells),
         uniqueness_score |->
             Frac(100 * (NumRows(data) - DuplicatedCount(data)), NumRows(data))]

\* describe() restricted to count, mean, min and max of every np.number column
\* (std, the quartiles, variance and skewness are left out of the model).
PresentCells(col) == SelectSeq(col.cells, LAMBDA c : ~c.nan)

RECURSIVE RatSum(_)
RatSum(cells) == IF cells = <<>> THEN Num(0) ELSE RatAdd(Head(cells), RatSum(Tail(cells)))

RECURSIVE RatMinSeq(_)
RatMinSeq(cells) ==
    IF Len(cells) = 1 THEN cells[1]
    ELSE LET m == RatMinSeq(Tail(cells)) IN IF RatLess(Head(cells), m) THEN Head(cells) ELSE m

RECURSIVE RatMaxSeq(_)
RatMaxSeq(cells) ==
    IF Len(cells) = 1 THEN cells[1] ELSE RatMax(Head(cells), RatMaxSeq(Tail(cells)))

ColumnStats(col) ==
    LET present == PresentCells(col) IN
    [column |-> col.name,
     count |-> Len(present),
     mean |-> IF present = <<>> THEN NaN ELSE RatDiv(RatSum(present), Num(Len(present))),
     min  |-> IF present = <<>> THEN NaN ELSE RatMinSeq(present),
     max  |-> IF present = <<>> THEN NaN ELSE RatMaxSeq(present)]

GenerateStatisticalSummary(data) ==
    LET numerical_cols == SelectSeq(data, LAMBDA c : IsNumberDtype(c.dtype))
    IN  [k \in DOMAIN numerical_cols |-> ColumnStats(numerical_cols[k])]

\* The parts of the profile that analyze computes from the table alone, computed
\* once per input table.
ProfileParts ==
    [data \in ProfilerTables |->
        [overview |-> GetOverview(data),
         missing_values |-> AnalyzeMissingValues(data),
         statistical_summary |-> GenerateStatisticalSummary(data),
         quality_metrics |-> CalculateQualityMetrics(data)]]

Profile(data, types) ==
    [overview |-> ProfileParts[data].overview,
     data_types |-> types,
     missing_values |-> ProfileParts[data].missing_values,
     statistical_summary |-> ProfileParts[data].statistical_summary,
     quality_metrics |-> ProfileParts[data].quality_metrics]

\* The remembered analysis: <<>> or <<[table, types, again]>>, the first table
\* analysed and the labels it got; 'again' records that the table was analysed
\* once more after another table, or by a fresh instance.
Remember(seen, data, types, last) ==
    IF seen = <<>>
      THEN << [table |-> data, types |-> types, again |-> FALSE] >>
    ELSE IF seen[1].table = data /\ last # data
      THEN << [seen[1] EXCEPT !.again = TRUE] >>
    ELSE seen

\* The five helpers of analyze read the table (len, columns, data[col],
\* isnull, duplicated, describe, select_dtypes) and assign nothing into it;
\* _is_datetime_column converts a copy (series.dropna()).
InputAfterAnalyze(data) == data

\* The profile is stored only while self.profile_report is empty.
analyzeStoringOnce(data) ==
    LET types == InferDataTypes(data, data_types) IN
    /\ profile_report' = IF profile_report = <<>> THEN << Profile(data, types) >>
                         ELSE profile_report
    /\ data_types' = types
    /\ dp_data' = data
    /\ dp_ret' = [op |-> "analyze", value |-> << "self.profile_report" >>]
    /\ dp_seen' = Remember(dp_seen, data, types, dp_data)
    /\ dp_input' = InputAfterAnalyze(data)
    /\ UNCHANGED <<pgVars, feVars, cfgVars, hlpVars>>

\* self.data_types and profile['data_types'] are one dict; the profile returned
\* is the dict stored in self.profile_report.
analyze(data) ==
    LET types == InferDataTypes(data, data_types) IN
    /\ profile_report' = << Profile(data, types) >>
    /\ data_types' = types
    /\ dp_data' = data
    /\ dp_ret' = [op |-> "analyze", value |-> << "self.profile_report" >>]
    /\ dp_seen' = Remember(dp_seen, data, types, dp_data)
    /\ dp_input' = InputAfterAnalyze(data)
    /\ UNCHANGED <<pgVars, feVars, cfgVars, hlpVars>>

Analyze == \E data \in ProfilerTables : analyze(data)

\* analyze(None): len(data) in _get_overview raises TypeError before anything
\* is stored; the call does not complete.
AnalyzeNone ==
    /\ dp_ret' = [op |-> "analyze", value |-> << "TypeError" >>]
    /\ UNCHANGED <<profile_report, data_types, dp_data, dp_seen, dp_input>>
    /\ UNCHANGED <<pgVars, feVars, cfgVars, hlpVars>>

\* A fresh DataProfiler() takes the place of the instance.
NewDataProfiler ==
    /\ profile_report' = <<>>
    /\ data_types' = <<>>
    /\ dp_data' = <<>>
    /\ dp_ret' = [op |-> "init", value |-> <<>>]
    /\ dp_input' = <<>>
    /\ UNCHANGED dp_seen
    /\ UNCHANGED <<pgVars, feVars, cfgVars, hlpVars>>

\* f"{x:.1f}" and f"{x:.2f}" of a rational x >= 0: round to the digit, half to even.
Pow10(k) == IF k = 1 THEN 10 ELSE 100
Scaled(x, k) ==
    LET q == (x.n * Pow10(k)) \div x.d
        r == (x.n * Pow10(k)) % x.d
    IN  IF 2 * r > x.d \/ (2 * r = x.d /\ q % 2 = 1) THEN q + 1 ELSE q
FormatFixed(x, k) ==
    LET v == Scaled(x, k)
        frac == v % Pow10(k)
    IN  ToString(v \div Pow10(k)) \o "."
        \o (IF k = 2 /\ frac < 10 THEN "0" ELSE "") \o ToString(frac)

NoProfileMessage == "No profile data available. Run analyze() first."

GenerateProfileReport(report) ==
    IF report = <<>> THEN << NoProfileMessage >>
    ELSE LET profile == report[1] IN
      << "==================================================",
         " SMART ETL DATA PROFILE REPORT",
         "==================================================",
         "Dataset Overview:",
         "  Rows: " \o ToString(profile.overview.num_rows),
         "  Columns: " \o ToString(profile.overview.num_columns),
         "  Memory: " \o profile.overview.memory_usage,
         "  Duplicates: " \o ToString(profile.overview.duplicate_rows),
         "",
         "Data Types:" >>
      \o [i \in DOMAIN profile.data_types |->
            "  " \o profile.data_types[i].column \o ": " \o profile.data_types[i].label]
      \o << "",
            "Missing Values:",
            "  Total missing: " \o ToString(profile.missing_values.total_missing),
            "  Missing percentage: "
               \o FormatFixed(profile.missing_values.missing_percentage_total, 2) \o "%",
            "",
            "Quality Metrics:",
            "  Overall Quality Score: "
               \o FormatFixed(profile.quality_metrics.overall_quality_score, 1) \o "/100",
            "  Completeness Score: "
               \o FormatFixed(profile.quality_metrics.completeness_score, 1) \o "/100",
            "  Uniqueness Score: "
               \o FormatFixed(profile.quality_metrics.uniqueness_score, 1) \o "/100" >>

DataProfiler_generate_report ==
    /\ dp_ret' = [op |-> "generate_report", value |-> GenerateProfileReport(profile_report)]
    /\ UNCHANGED <<profile_report, data_types, dp_data, dp_seen, dp_input>>
    /\ UNCHANGED <<pgVars, feVars, cfgVars, hlpVars>>

DPInit ==
    /\ profile_report = <<>>
    /\ data_types = <<>>
    /\ dp_data = <<>>
    /\ dp_ret = [op |-> "init", value |-> <<>>]
    /\ dp_seen = <<>>
    /\ dp_input = <<>>

DPNext ==
    \/ Analyze
    \/ AnalyzeNone
    \/ NewDataProfiler
    \/ DataProfiler_generate_report


\* --------------------------------------------------------------------------
\* FeatureEngineer
\* --------------------------------------------------------------------------
DefaultMaxFeatures == 50
InteractionLimit == 5
RollingColumns == 3
RollingWindow == 3

\* The tables create_features is given, 3 rows each.
FeatureTables ==
    { << ColA, ColB >>,
      << ColB, ColA >>,
      << ColA, ColLabel >>,
      << ColA, ColEventTime, ColLabel >>,
      << ColScore, ColLabel >>,
      << ColOrderDate, ColLabel >>,
      << ColEventTime, ColOrderDate >>,
      << ColA, ColB, ColLabel >>,
      << ColA, ColB, ColOrderDate >>,
      << ColV, ColW, ColZ >>,
      << ColLabel >>,
      << ColOrderDateUpper, ColData >>,
      << ColUpdated, ColTimeStamp, ColLabel >>,
      << ColEventTime, ColLabel >> }
\* target_column: "" is None; "absent" names no column.
TargetColumns == {"", "label", "a", "absent"}
MaxFeaturesChoices == {0, 1, DefaultMaxFeatures}

HasColumn(data, name) == \E i \in DOMAIN data : data[i].name = name
ColumnOf(data, name) == data[CHOOSE i \in DOMAIN data : data[i].name = name]
\* df[name] = values: in place where the column exists, else a new last column.
SetColumn(data, col) ==
    IF HasColumn(data, col.name)
      THEN [i \in DOMAIN data |-> IF data[i].name = col.name THEN col ELSE data[i]]
      ELSE Append(data, col)
NumericalCols(data) ==
    LET keep == SelectSeq(data, LAMBDA c : IsNumberDtype(c.dtype))
    IN  [k \in DOMAIN keep |-> keep[k].name]
HasMissing(col) == \E i \in DOMAIN col.cells : col.cells[i].nan

\* 'date' in col.lower() or 'time' in col.lower(), for the column names in use.
\* str.lower() and the 'in' test on strings.
LowerChar(c) ==
    LET upper == "ABCDEFGHIJKLMNOPQRSTUVWXYZ"
        lower == "abcdefghijklmnopqrstuvwxyz"
        at == {k \in 1..Len(upper) : SubSeq(upper, k, k) = c}
    IN  IF at = {} THEN c ELSE LET k == CHOOSE k \in at : TRUE IN SubSeq(lower, k, k)
Lower(str) ==
    LET F[i \in 0..Len(str)] == IF i = 0 THEN "" ELSE F[i - 1] \o LowerChar(SubSeq(str, i, i))
    IN  F[Len(str)]
Contains(str, sub) ==
    \E i \in 1..(Len(str) - Len(sub) + 1) : SubSeq(str, i, i + Len(sub) - 1) = sub

\* The name tested as it is written.
NameHasDateOrTimeCaseSensitive(name) == Contains(name, "date") \/ Contains(name, "time")

\* 'date' in col.lower() or 'time' in col.lower()
NameHasDateOrTime(name) == Contains(Lower(name), "date") \/ Contains(Lower(name), "time")

\* Series.dt accessors of a date yyyymmdd.
YearOf(date) == date \div 10000
MonthOf(date) == (date \div 100) % 100
DayOf(date) == date % 100
QuarterOf(date) == (MonthOf(date) - 1) \div 3 + 1
\* Monday is 0.
DayOfWeekOf(date) ==
    LET m == MonthOf(date)
        y == IF m < 3 THEN YearOf(date) - 1 ELSE YearOf(date)
        t == << 0, 3, 2, 5, 0, 3, 5, 1, 4, 6, 2, 4 >>
        sunday0 == (y + y \div 4 - y \div 100 + y \div 400 + t[m] + DayOf(date)) % 7
    IN  (sunday0 + 6) % 7

DtPart(part, date) ==
    CASE part = "year" -> YearOf(date)
      [] part = "month" -> MonthOf(date)
      [] part = "day" -> DayOf(date)
      [] part = "dayofweek" -> DayOfWeekOf(date)
      [] part = "quarter" -> QuarterOf(date)

\* series.dt.<part>: int32, or float64 with NaN where the series holds NaT.
DtColumn(col, part) ==
    Column(col.name \o "_" \o part,
           IF HasMissing(col) THEN "float64" ELSE "int32",
           [i \in DOMAIN col.cells |->
               IF col.cells[i].nan THEN NaN ELSE Num(DtPart(part, col.cells[i].n))])

TemporalParts == << "year", "month", "day", "dayofweek", "quarter" >>

\* One pass of the loop over datetime_columns; st is [data, created].
TemporalStep(st, name) ==
    IF ToDatetimeOk(ColumnOf(st.data, name))
      THEN LET converted == ToDatetime(ColumnOf(st.data, name))
               F[k \in 0..Len(TemporalParts)] ==
                   IF k = 0 THEN SetColumn(st.data, converted)
                   ELSE SetColumn(F[k - 1], DtColumn(converted, TemporalParts[k]))
           IN  [data |-> F[Len(TemporalParts)],
                created |-> st.created
                    \o [k \in DOMAIN TemporalParts |-> name \o "_" \o TemporalParts[k]]]
      ELSE st

CreateTemporalFeatures(st) ==
    LET datetime_columns == SelectSeq(ColumnNames(st.data), NameHasDateOrTime)
        F[k \in 0..Len(datetime_columns)] ==
            IF k = 0 THEN st ELSE TemporalStep(F[k - 1], datetime_columns[k])
    IN  F[Len(datetime_columns)]

\* Arithmetic of two columns, row by row; a missing operand gives a missing cell.
ProductColumn(name, c1, c2) ==
    Column(name,
           IF c1.dtype = "float64" \/ c2.dtype = "float64" THEN "float64"
           ELSE IF c1.dtype = "int32" /\ c2.dtype = "int32" THEN "int32" ELSE "int64",
           [r \in DOMAIN c1.cells |->
               IF c1.cells[r].nan \/ c2.cells[r].nan THEN NaN
               ELSE RatMul(c1.cells[r], c2.cells[r])])
RatioColumn(name, c1, c2) ==
    Column(name, "float64",
           [r \in DOMAIN c1.cells |->
               IF c1.cells[r].nan \/ c2.cells[r].nan THEN NaN
               ELSE RatDiv(c1.cells[r], c2.cells[r])])
\* series.iloc[0] != 0: the first row only.
FirstNonZero(col) == col.cells[1].nan \/ col.cells[1].n # 0
\* (series != 0).all(): a missing cell is not equal to 0.
AllNonZero(col) == \A r \in DOMAIN col.cells : col.cells[r].nan \/ col.cells[r].n # 0

\* One pass of the inner loop, for the pair (col1, col2).
InteractionStep(st, col1, col2) ==
    LET product == ProductColumn(col1 \o "_x_" \o col2,
                                 ColumnOf(st.data, col1), ColumnOf(st.data, col2))
        with_product == [data |-> SetColumn(st.data, product),
                         created |-> Append(st.created, col1 \o "_x_" \o col2)]
    IN  IF AllNonZero(ColumnOf(with_product.data, col2))
          THEN [data |-> SetColumn(with_product.data,
                            RatioColumn(col1 \o "_div_" \o col2,
                                        ColumnOf(with_product.data, col1),
                                        ColumnOf(with_product.data, col2))),
                created |-> Append(with_product.created, col1 \o "_div_" \o col2)]
          ELSE with_product

\* The pairs (i, j), i < j, in the order the nested loops visit them.
RECURSIVE PairsFrom(_, _, _)
PairsFrom(i, j, n) ==
    IF i >= n THEN <<>>
    ELSE IF j > n THEN PairsFrom(i + 1, i + 2, n)
    ELSE << <<i, j>> >> \o PairsFrom(i, j + 1, n)

FirstN(s, n) == IF Len(s) > n THEN SubSeq(s, 1, n) ELSE s

CreateInteractionFeatures(st) ==
    LET numerical_cols == FirstN(NumericalCols(st.data), InteractionLimit)
        pairs == PairsFrom(1, 2, Len(numerical_cols))
        F[k \in 0..Len(pairs)] ==
            IF k = 0 THEN st
            ELSE InteractionStep(F[k - 1], numerical_cols[pairs[k][1]], numerical_cols[pairs[k][2]])
    IN  F[Len(pairs)]

\* rolling(window=3, min_periods=1): the non-missing cells of rows max(1, r-2)..r.
Window(col, r) ==
    SelectSeq(SubSeq(col.cells, IF r > RollingWindow THEN r - RollingWindow + 1 ELSE 1, r),
              LAMBDA c : ~c.nan)
\* rolling(window=3).mean() with min_periods left at the window size.
RollingMeanCellFullWindow(col, r) ==
    LET w == Window(col, r) IN
    IF Len(w) < RollingWindow THEN NaN ELSE RatDiv(RatSum(w), Num(Len(w)))
RollingMeanCell(col, r) ==
    LET w == Window(col, r) IN
    IF w = <<>> THEN NaN ELSE RatDiv(RatSum(w), Num(Len(w)))
\* The sample standard deviation (ddof = 1), missing below two observations.
\* The cell holds the variance and s = "sqrt" says the value is its square root.
RollingStdCell(col, r) ==
    LET w == Window(col, r)
        mean == RatDiv(RatSum(w), Num(Len(w)))
        squares == [k \in DOMAIN w |-> RatMul(RatSub(w[k], mean), RatSub(w[k], mean))]
    IN  IF Len(w) < 2 THEN NaN
        ELSE [RatDiv(RatSum(squares), Num(Len(w) - 1)) EXCEPT !.s = "sqrt"]

StatisticalStep(st, col) ==
    LET source == ColumnOf(st.data, col)
        mean == Column(col \o "_rolling_mean", "float64",
                       [r \in DOMAIN source.cells |-> RollingMeanCell(source, r)])
        with_mean == SetColumn(st.data, mean)
        source2 == ColumnOf(with_mean, col)
        std == Column(col \o "_rolling_std", "float64",
                      [r \in DOMAIN source2.cells |-> RollingStdCell(source2, r)])
    IN  [data |-> SetColumn(with_mean, std),
         created |-> st.created \o << col \o "_rolling_mean", col \o "_rolling_std" >>]

\* The columns created by the earlier stages left out of the candidates.
CreateStatisticalFeaturesOfInputOnly(st) ==
    LET numerical_cols ==
            SelectSeq(NumericalCols(st.data),
                      LAMBDA col : \A k \in DOMAIN st.created : st.created[k] # col)
        first == FirstN(numerical_cols, RollingColumns)
        F[k \in 0..Len(first)] ==
            IF k = 0 THEN st ELSE StatisticalStep(F[k - 1], first[k])
    IN  IF Len(numerical_cols) >= RollingColumns THEN F[Len(first)] ELSE st

\* The candidates are the numeric columns of the table as the interaction
\* stage left it.
CreateStatisticalFeatures(st) ==
    LET numerical_cols == NumericalCols(st.data)
        first == FirstN(numerical_cols, RollingColumns)
        F[k \in 0..Len(first)] ==
            IF k = 0 THEN st ELSE StatisticalStep(F[k - 1], first[k])
    IN  IF Len(numerical_cols) >= RollingColumns THEN F[Len(first)] ELSE st

\* The three feature stages on a copy of the input: [data, created]. Computed
\* once per input table.
Engineered ==
    [data \in FeatureTables |->
        CreateStatisticalFeatures(
            CreateInteractionFeatures(
                CreateTemporalFeatures([data |-> data, created |-> <<>>])))]

Min(x, y) == IF x < y THEN x ELSE y

\* X = data.drop(columns=[target_column]); X_numeric = X.select_dtypes(np.number)
Predictors(data, target_column) == SelectSeq(data, LAMBDA c : c.name # target_column)
NumericPredictors(data, target_column) ==
    SelectSeq(Predictors(data, target_column), LAMBDA c : IsNumberDtype(c.dtype))

\* SelectKBest(mutual_info_classif).fit validates its input: a missing cell in X
\* or y raises ValueError, and so does a target of non-integer floats ("Unknown
\* label type"). Other tables are taken to be scorable.
ScoringRaises(X_numeric, y) ==
    \/ \E i \in DOMAIN X_numeric : HasMissing(X_numeric[i])
    \/ HasMissing(y)
    \/ y.dtype = "float64" /\ \E r \in DOMAIN y.cells : y.cells[r].d # 1

\* k = X_numeric.shape[1], whatever max_features is.
KAll(limit, n) == n
\* k = min(self.max_features, X_numeric.shape[1])
KBest(limit, n) == Min(limit, n)

\* selector.get_support(): the last k positions of a stable ascending argsort.
SupportMask(scores, k) ==
    { i \in DOMAIN scores :
        Cardinality({ j \in DOMAIN scores :
                        scores[j] > scores[i] \/ (scores[j] = scores[i] /\ j > i) }) < k }

\* self.feature_importance[feature] = score, for one feature.
SetImportance(importance, feature, score) ==
    IF \E i \in DOMAIN importance : importance[i].feature = feature
      THEN [i \in DOMAIN importance |->
              IF importance[i].feature = feature
                THEN [feature |-> feature, score |-> score] ELSE importance[i]]
      ELSE Append(importance, [feature |-> feature, score |-> score])

StoreImportance(importance, X_numeric, scores) ==
    LET F[i \in 0..Len(X_numeric)] ==
            IF i = 0 THEN importance
            ELSE SetImportance(F[i - 1], X_numeric[i].name, scores[i])
    IN  F[Len(X_numeric)]

\* result_data = X[self.selected_features].copy(); result_data[target_column] = y
SelectedTable(X, selected, y) ==
    SetColumn([k \in DOMAIN selected |-> ColumnOf(X, selected[k])], y)

\* _select_features with the scores the estimator returned:
\* [raised, selection, data, selected, importance].
SelectFeatures(data, target_column, limit, selected, importance, scores) ==
    LET X == Predictors(data, target_column)
        y == ColumnOf(data, target_column)
        X_numeric == NumericPredictors(data, target_column)
        mask == SupportMask(scores, KBest(limit, Len(X_numeric)))
        keep == SelectSeq([i \in DOMAIN X_numeric |-> i], LAMBDA i : i \in mask)
        names == [k \in DOMAIN keep |-> X_numeric[keep[k]].name]
    IN  [raised |-> FALSE, selection |-> TRUE,
         data |-> SelectedTable(X, names, y),
         selected |-> names,
         importance |-> StoreImportance(importance, X_numeric, scores)]

\* _select_features without the test for an empty X_numeric: the estimator is
\* given a table of no column and raises.
OutcomesWithoutNumericTest(data, target_column, limit, selected, importance) ==
    LET unchanged == [raised |-> FALSE, selection |-> FALSE, data |-> data,
                      selected |-> selected, importance |-> importance]
        X_numeric == NumericPredictors(data, target_column)
    IN  IF target_column = "" \/ ~HasColumn(data, target_column) THEN {unchanged}
        ELSE IF X_numeric = <<>> \/ ScoringRaises(X_numeric, ColumnOf(data, target_column))
          THEN {[unchanged EXCEPT !.raised = TRUE, !.data = <<>>]}
        ELSE { SelectFeatures(data, target_column, limit, selected, importance, scores) :
                 scores \in [DOMAIN X_numeric -> 0..MaxScore] }

\* What create_features does after the three feature stages.
Outcomes(data, target_column, limit, selected, importance) ==
    LET unchanged == [raised |-> FALSE, selection |-> FALSE, data |-> data,
                      selected |-> selected, importance |-> importance]
        X_numeric == NumericPredictors(data, target_column)
    IN  IF target_column = "" \/ ~HasColumn(data, target_column) THEN {unchanged}
        ELSE IF X_numeric = <<>> THEN {unchanged}
        ELSE IF ScoringRaises(X_numeric, ColumnOf(data, target_column))
          THEN {[unchanged EXCEPT !.raised = TRUE, !.data = <<>>]}
        ELSE { SelectFeatures(data, target_column, limit, selected, importance, scores) :
                 scores \in [DOMAIN X_numeric -> 0..MaxScore] }

\* engineered_data = data: the stages write to the caller's table.
CallerTableShared(data, engineered_data) == engineered_data
\* engineered_data = data.copy(), and again a copy in every stage: what the
\* stages write goes to the copies and the caller's table is left as it was.
CallerTable(data, engineered_data) == data

\* self.created_features.extend(...) of the three stages.
Extend(created, names) == created \o names

create_features(data, target_column) ==
    /\ fe_calls < MaxCalls
    /\ fe_calls' = fe_calls + 1
    /\ created_features' = Extend(created_features, Engineered[data].created)
    /\ \E o \in Outcomes(Engineered[data].data, target_column, max_features,
                         selected_features, feature_importance) :
         /\ selected_features' = o.selected
         /\ feature_importance' = o.importance
         /\ fe_ret' = [op |-> "create_features", raised |-> o.raised,
                       selection |-> o.selection, value |-> o.data]
    /\ fe_data' = [table |-> data, target |-> target_column,
                   after |-> CallerTable(data, Engineered[data].data)]
    /\ UNCHANGED max_features
    /\ UNCHANGED <<pgVars, dpVars, cfgVars, hlpVars>>

CreateFeatures ==
    \E data \in FeatureTables, target_column \in TargetColumns :
        create_features(data, target_column)

\* sorted(items, key=score, reverse=True)[:5]: descending, ties in dict order.
TopFeatures(importance) ==
    LET rank(i) == Cardinality({ j \in DOMAIN importance :
                       importance[j].score > importance[i].score
                       \/ (importance[j].score = importance[i].score /\ j < i) })
        n == Min(5, Len(importance))
    IN  [k \in 1..n |-> importance[CHOOSE i \in DOMAIN importance : rank(i) = k - 1]]

GetFeatureSummary(created, selected, importance) ==
    << "Feature Engineering Summary:",
       "  Total features created: " \o ToString(Len(created)),
       "  Features selected: " \o ToString(Len(selected)) >>
    \o (IF importance # <<>>
          THEN << "  Top 5 most important features:" >>
               \o [k \in DOMAIN TopFeatures(importance) |->
                     "    " \o TopFeatures(importance)[k].feature \o ": "
                     \o ToString(TopFeatures(importance)[k].score) \o ".0000"]
          ELSE <<>>)

get_feature_summary ==
    /\ fe_ret' = [op |-> "get_feature_summary", raised |-> FALSE, selection |-> FALSE,
                  value |-> GetFeatureSummary(created_features, selected_features,
                                              feature_importance)]
    /\ UNCHANGED <<max_features, created_features, selected_features, feature_importance,
                   fe_data, fe_calls>>
    /\ UNCHANGED <<pgVars, dpVars, cfgVars, hlpVars>>

NoCall == [table |-> <<>>, target |-> "", after |-> <<>>]

\* FeatureEngineer(max_features) takes the place of the instance.
NewFeatureEngineer ==
    /\ \E limit \in MaxFeaturesChoices : max_features' = limit
    /\ created_features' = <<>>
    /\ selected_features' = <<>>
    /\ feature_importance' = <<>>
    /\ fe_data' = NoCall
    /\ fe_ret' = [op |-> "init", raised |-> FALSE, selection |-> FALSE, value |-> <<>>]
    /\ fe_calls' = 0
    /\ UNCHANGED <<pgVars, dpVars, cfgVars, hlpVars>>

FEInit ==
    /\ max_features = DefaultMaxFeatures
    /\ created_features = <<>>
    /\ selected_features = <<>>
    /\ feature_importance = <<>>
    /\ fe_data = NoCall
    /\ fe_ret = [op |-> "init", raised |-> FALSE, selection |-> FALSE, value |-> <<>>]
    /\ fe_calls = 0

FENext ==
    \/ CreateFeatures
    \/ get_feature_summary
    \/ NewFeatureEngineer

\* --------------------------------------------------------------------------
\* Config
\* --------------------------------------------------------------------------
\* A YAML or Python value: a scalar v, or a dict whose items map keys to values;
\* "none" is None (an empty document) and "list" a sequence.
Scalar(v) == [kind |-> "scalar", v |-> v, items |-> <<>>]
Dict(items) == [kind |-> "dict", v |-> "", items |-> items]
IsDict(value) == value.kind = "dict"
Keys(value) == DOMAIN value.items

DefaultConfig ==
    Dict("data_cleaning" :>
             Dict("max_missing_percentage" :> Scalar("50.0")
                  @@ "outlier_threshold" :> Scalar("1.5")
                  @@ "imputation_strategy" :> Scalar("auto"))
         @@ "feature_engineering" :>
             Dict("max_features" :> Scalar("50")
                  @@ "feature_selection_method" :> Scalar("mutual_info")
                  @@ "interaction_depth" :> Scalar("2"))
         @@ "performance" :>
             Dict("parallel_processing" :> Scalar("True")
                  @@ "chunk_size" :> Scalar("10000")
                  @@ "max_memory_usage" :> Scalar("2GB"))
         @@ "output" :>
             Dict("save_pipeline" :> Scalar("True")
                  @@ "generate_report" :> Scalar("True")
                  @@ "export_code" :> Scalar("True")))

\* The files load_config is given, as yaml.safe_load reads them; "missing.yaml"
\* does not exist.
ConfigFiles ==
    { [name |-> "override.yaml",
       doc |-> Dict("data_cleaning" :>
                        Dict("outlier_threshold" :> Scalar("3.0")
                             @@ "unknown_key" :> Scalar("1"))
                    @@ "logging" :> Dict("level" :> Scalar("debug")))],
      [name |-> "nested.yaml",
       doc |-> Dict("feature_engineering" :>
                        Dict("max_features" :> Dict("limit" :> Scalar("10"))))],
      [name |-> "flat.yaml", doc |-> Dict("performance" :> Scalar("fast"))],
      [name |-> "custom.yaml",
       doc |-> Dict("custom" :> Dict("flag" :> Scalar("False") @@ "extra" :> Scalar("1"))
                    @@ "output" :> Dict("save_pipeline" :> Scalar("False")))],
      [name |-> "empty.yaml", doc |-> [kind |-> "none", v |-> "", items |-> <<>>]],
      [name |-> "list.yaml", doc |-> [kind |-> "list", v |-> "", items |-> <<>>]],
      [name |-> "missing.yaml", doc |-> [kind |-> "no file", v |-> "", items |-> <<>>]] }

\* The set(key, value) calls the model makes, the key split at the dots.
SetCalls ==
    { [keys |-> << "custom", "flag" >>, value |-> Scalar("True")],
      [keys |-> << "data_cleaning", "outlier_threshold" >>, value |-> Scalar("2.0")] }

\* default.update(user): every user key is taken over, known or not.
RECURSIVE UpdateConfigAddingKeys(_, _)
UpdateConfigAddingKeys(default, user) ==
    Dict([k \in Keys(default) \cup Keys(user) |->
            IF k \notin Keys(user) THEN default.items[k]
            ELSE IF k \notin Keys(default) THEN user.items[k]
            ELSE IF IsDict(user.items[k]) /\ IsDict(default.items[k])
              THEN UpdateConfigAddingKeys(default.items[k], user.items[k])
            ELSE user.items[k]])

\* _update_config(default, user): the dict 'default' after the loop.
RECURSIVE UpdateConfig(_, _)
UpdateConfig(default, user) ==
    Dict([k \in Keys(default) |->
            IF k \notin Keys(user) THEN default.items[k]
            ELSE IF IsDict(user.items[k]) /\ IsDict(default.items[k])
              THEN UpdateConfig(default.items[k], user.items[k])
            ELSE user.items[k]])

\* open() or user.items() raises and the except clause leaves the defaults.
LoadRaises(file) == ~IsDict(file.doc)

\* The top-level values that _update_config changes in place keep being the
\* object DEFAULTS holds; a top-level value that is assigned stops being it.
StillShared(shared, before, user) ==
    { k \in shared : k \in Keys(user) => IsDict(user.items[k]) /\ IsDict(before.items[k]) }
SharedInto(defaults, shared, after) ==
    Dict([k \in Keys(defaults) |-> IF k \in shared THEN after.items[k] ELSE defaults.items[k]])

load_config(file) ==
    /\ cfg_before' = config
    /\ cfg_ret' = [op |-> "load_config", file |-> file]
    /\ IF LoadRaises(file)
         THEN UNCHANGED <<DEFAULTS, config, cfg_shared>>
         ELSE /\ config' = UpdateConfig(config, file.doc)
              /\ cfg_shared' = StillShared(cfg_shared, config, file.doc)
              /\ DEFAULTS' = SharedInto(DEFAULTS, cfg_shared', config')
    /\ UNCHANGED <<pgVars, dpVars, feVars, hlpVars>>

LoadConfig == \E file \in ConfigFiles : load_config(file)

\* get(key, default): value[k] along the dotted key; a missing key (KeyError)
\* or a value that is not a mapping (TypeError) gives the default.
RECURSIVE Config_get(_, _, _)
Config_get(value, keys, default) ==
    IF keys = <<>> THEN value
    ELSE IF ~IsDict(value) THEN default
    ELSE IF keys[1] \notin Keys(value) THEN default
    ELSE Config_get(value.items[keys[1]], Tail(keys), default)

\* set(): the dicts along the path are created where missing and the last
\* key is assigned.
RECURSIVE SetPath(_, _, _)
SetPath(value, keys, new) ==
    IF Len(keys) = 1
      THEN Dict([k \in Keys(value) \cup {keys[1]} |->
                   IF k = keys[1] THEN new ELSE value.items[k]])
      ELSE Dict([k \in Keys(value) \cup {keys[1]} |->
                   IF k = keys[1]
                     THEN SetPath(IF k \in Keys(value) THEN value.items[k] ELSE Dict(<<>>),
                                  Tail(keys), new)
                     ELSE value.items[k]])

\* set() on a path that runs through a value that is not a dict raises
\* TypeError; the model makes the calls that do not.
SetReturns(value, keys) ==
    IF Len(keys) = 1 \/ keys[1] \notin Keys(value) THEN TRUE
    ELSE IsDict(value.items[keys[1]]) /\ Len(keys) = 2

Config_set(call) ==
    /\ SetReturns(config, call.keys)
    /\ config' = SetPath(config, call.keys, call.value)
    /\ cfg_shared' = IF Len(call.keys) = 1 THEN cfg_shared \ {call.keys[1]} ELSE cfg_shared
    /\ DEFAULTS' = SharedInto(DEFAULTS, cfg_shared', config')
    /\ cfg_ret' = [op |-> "set", file |-> <<>>]
    /\ UNCHANGED cfg_before
    /\ UNCHANGED <<pgVars, dpVars, feVars, hlpVars>>

ConfigSet == \E call \in SetCalls : Config_set(call)

\* Config(): self.config = self.DEFAULTS.copy(), a copy of the top level only.
NewConfig ==
    /\ config' = DEFAULTS
    /\ cfg_shared' = Keys(DEFAULTS)
    /\ cfg_before' = <<>>
    /\ cfg_ret' = [op |-> "init", file |-> <<>>]
    /\ UNCHANGED DEFAULTS
    /\ UNCHANGED <<pgVars, dpVars, feVars, hlpVars>>

\* The module creates one instance: config = Config().
CFGInit ==
    /\ DEFAULTS = DefaultConfig
    /\ config = DefaultConfig
    /\ cfg_shared = Keys(DefaultConfig)
    /\ cfg_before = <<>>
    /\ cfg_ret = [op |-> "init", file |-> <<>>]

CFGNext ==
    \/ LoadConfig
    \/ ConfigSet
    \/ NewConfig

\* --------------------------------------------------------------------------
\* Helper functions (utils-helpers.py)
\* --------------------------------------------------------------------------
\* What validate_dataframe reads of its first argument: whether it is a
\* DataFrame, len(df) and df.columns. A DataFrame may have rows and no column.
MaxRowsRequired == 3
ValidatedInputs ==
    { [kind |-> "None", rows |-> 0, columns |-> <<>>],
      [kind |-> "list", rows |-> 2, columns |-> <<>>] }
    \cup { [kind |-> "DataFrame", rows |-> n, columns |-> cols] :
             n \in 0..MaxRowsRequired,
             cols \in { <<>>, << "a" >>, << "a", "b" >>, << "b", "order_date", "label" >> } }
\* required_columns: <<>> is None or the empty list; "[unhashable]" stands for
\* an entry such as a list, which 'in df.columns' cannot hash.
RequiredColumnsPool ==
    { <<>>, << "a" >>, << "b", "a" >>, << "label", "missing" >>, << "a", "[unhashable]" >> }

\* df.empty: one of the axes has length 0.
DfEmpty(df) == df.rows = 0 \/ df.columns = <<>>
\* [col for col in required_columns if col not in df.columns]
MissingColumns(df, required_columns) ==
    SelectSeq(required_columns, LAMBDA col : \A i \in DOMAIN df.columns : df.columns[i] # col)
\* 'col not in df.columns' raises TypeError for an unhashable entry.
MembershipRaises(required_columns) ==
    \E i \in DOMAIN required_columns : required_columns[i] = "[unhashable]"

\* The emptiness test left out.
ValidateDataframeNoEmptyTest(df, required_columns, min_rows) ==
    IF df.kind # "DataFrame" THEN FALSE
    ELSE IF df.rows < min_rows THEN FALSE
    ELSE IF required_columns # <<>> /\ MembershipRaises(required_columns) THEN FALSE
    ELSE IF required_columns # <<>> /\ MissingColumns(df, required_columns) # <<>> THEN FALSE
    ELSE TRUE

\* The value returned: each test in the order of the code, the except clause
\* returning False.
ValidateDataframe(df, required_columns, min_rows) ==
    IF df.kind # "DataFrame" THEN FALSE
    ELSE IF df.rows < min_rows THEN FALSE
    ELSE IF required_columns # <<>> /\ MembershipRaises(required_columns) THEN FALSE
    ELSE IF required_columns # <<>> /\ MissingColumns(df, required_columns) # <<>> THEN FALSE
    ELSE IF DfEmpty(df) THEN FALSE
    ELSE TRUE

validate_dataframe(df, required_columns, min_rows) ==
    /\ vd_ret' = [op |-> "validate_dataframe", df |-> df,
                  required_columns |-> required_columns, min_rows |-> min_rows,
                  value |-> ValidateDataframe(df, required_columns, min_rows)]
    /\ UNCHANGED <<pgVars, dpVars, feVars, cfgVars>>

ValidateCall ==
    \E df \in ValidatedInputs, required_columns \in RequiredColumnsPool,
       min_rows \in 0..MaxRowsRequired :
        validate_dataframe(df, required_columns, min_rows)

HLPInit == vd_ret = [op |-> "init", df |-> <<>>, required_columns |-> <<>>,
                     min_rows |-> 1, value |-> <<>>]

HLPNext == ValidateCall

\* --------------------------------------------------------------------------
\* Specifications
\* --------------------------------------------------------------------------
vars == <<pgVars, dpVars, feVars, cfgVars, hlpVars>>
Init == PGInit /\ DPInit /\ FEInit /\ CFGInit /\ HLPInit
Next == PGNext \/ DPNext \/ FENext \/ CFGNext \/ HLPNext
\* The three classes share no state: each is also checked on its own.
Spec == Init /\ [][Next]_vars
SpecPipeline == Init /\ [][PGNext]_vars
SpecProfiler == Init /\ [][DPNext]_vars
SpecFeatures == Init /\ [][FENext]_vars
SpecConfig == Init /\ [][CFGNext]_vars
SpecHelpers == Init /\ [][HLPNext]_vars
\* The two classes that are given tables: a DataProfiler next to an untouched
\* FeatureEngineer, or a FeatureEngineer next to an untouched DataProfiler.
TablesNext == (FEInit /\ DPNext) \/ (DPInit /\ FENext)
SpecTables == Init /\ [][TablesNext]_vars

\* --------------------------------------------------------------------------
\* Properties of DataProfiler
\* --------------------------------------------------------------------------
Analysed == profile_report # <<>>
LabelOf(i) == data_types[i].label
\* The missing cells of the analysed table, counted cell by cell.
MissingCellsOf(data) ==
    Cardinality({ rc \in (DOMAIN data) \X (1..NumRows(data)) : data[rc[1]].cells[rc[2]].nan })

C6_DistinctNumericIsNumerical ==
    Analysed /\ NumRows(dp_data) = TestRows =>
        \A i \in DOMAIN dp_data :
            /\ IsNumberDtype(dp_data[i].dtype)
            /\ MissingCount(dp_data[i]) <= 1
            /\ NUnique(dp_data[i]) = TestRows - MissingCount(dp_data[i])
            => LabelOf(i) = "numerical"

\* C7: a numeric column not labelled datetime is categorical below 10 distinct
\* non-missing values and numerical from 10 on, and the column
\* [1,2,3,4,5,missing,7,8,9,10] is labelled categorical.
C7_NumericThreshold ==
    Analysed =>
        \A i \in DOMAIN dp_data :
            /\ IsNumericDtype(dp_data[i].dtype) /\ LabelOf(i) # "datetime"
                 => LabelOf(i) = IF NUnique(dp_data[i]) < 10 THEN "categorical" ELSE "numerical"
            /\ dp_data[i].cells = Numerical1.cells => LabelOf(i) = "categorical"

\* C8: analysing a table that was analysed before, on the same instance or on a
\* fresh one and whatever was analysed in between, gives the labels it got then.
C8_SameTableSameLabels ==
    Analysed /\ dp_seen # <<>> /\ dp_data = dp_seen[1].table =>
        /\ data_types = dp_seen[1].types
        /\ profile_report[1].data_types = dp_seen[1].types

\* The remembered table has been analysed a second time after something else.
C8_Witness ==
    /\ Analysed /\ dp_seen # <<>>
    /\ dp_seen[1].again
    /\ dp_data = dp_seen[1].table
    /\ Len(dp_data) > 1

\* C9: the counts in columns_missing add up to total_missing, which is the
\* number of missing cells of the table; columns_missing holds exactly the
\* columns with a missing cell.
C9_MissingCountsAddUp ==
    Analysed =>
        LET mv == profile_report[1].missing_values IN
        /\ SumSeq([k \in DOMAIN mv.columns_missing |-> mv.columns_missing[k].count])
              = mv.total_missing
        /\ mv.total_missing = MissingCellsOf(dp_data)
        /\ {mv.columns_missing[k].column : k \in DOMAIN mv.columns_missing}
              = {dp_data[i].name : i \in {j \in DOMAIN dp_data : MissingCount(dp_data[j]) > 0}}

\* A table with two columns that hold a missing cell each.
C9_Witness ==
    /\ Analysed
    /\ Len(profile_report[1].missing_values.columns_missing) = 2
    /\ profile_report[1].missing_values.total_missing = 2

\* C10: completeness_score is 100 * (1 - missing_cells / (rows * columns)) and
\* lies between 0 and 100.
C10_Completeness ==
    Analysed =>
        LET c == profile_report[1].quality_metrics.completeness_score
            total == NumRows(dp_data) * NumCols(dp_data)
        IN  /\ c.n * total = 100 * (total - MissingCellsOf(dp_data)) * c.d
            /\ 0 <= c.n /\ c.n <= 100 * c.d

\* A table of several columns with a missing cell: the score is not 100.
C10_Witness ==
    /\ Analysed
    /\ NumCols(dp_data) > 1
    /\ MissingCellsOf(dp_data) > 0
    /\ RatLess(profile_report[1].quality_metrics.completeness_score, Num(100))

\* C18: generate_report returns the sentinel string exactly when no analyze
\* call has completed on the instance; after a completed analyze it renders
\* the profile of the most recent one: its rows, columns, column labels,
\* missing cells and scores.
C18_ReportSentinel ==
    dp_ret.op = "generate_report" =>
        /\ dp_ret.value = << "No profile data available. Run analyze() first." >>
              <=> dp_data = <<>>
        /\ dp_data # <<>> =>
              /\ dp_ret.value[5] = "  Rows: " \o ToString(NumRows(dp_data))
              /\ dp_ret.value[6] = "  Columns: " \o ToString(NumCols(dp_data))
              /\ \A i \in DOMAIN dp_data :
                    dp_ret.value[10 + i] = "  " \o dp_data[i].name \o ": " \o LabelOf(i)
              /\ dp_ret.value[13 + NumCols(dp_data)]
                    = "  Total missing: " \o ToString(MissingCellsOf(dp_data))
              /\ Len(dp_ret.value) = 19 + NumCols(dp_data)

\* Two different tables were analysed one after the other and the report then
\* generated: it shows the second.
C18_Witness ==
    /\ dp_ret.op = "generate_report"
    /\ dp_seen # <<>> /\ dp_data # <<>>
    /\ dp_seen[1].table # dp_data
    /\ NumCols(dp_seen[1].table) # NumCols(dp_data)
    /\ dp_ret.value[6] = "  Columns: " \o ToString(NumCols(dp_data))

\* The rows of the analysed table that equal an earlier row in every column.
RepeatedRows(data) ==
    {r \in 1..NumRows(data) :
        \E q \in 1..(r - 1) : \A i \in DOMAIN data : data[i].cells[q] = data[i].cells[r]}

\* C11: for a table with at least one row and one column overall_quality_score
\* lies between 0 and 100; it is the completeness minus 10 * duplicate_rows /
\* rows, and 0 where that is negative.
C11_OverallScoreInRange ==
    Analysed /\ NumRows(dp_data) >= 1 /\ NumCols(dp_data) >= 1 =>
        LET q == profile_report[1].quality_metrics
            penalty == Frac(10 * Cardinality(RepeatedRows(dp_data)), NumRows(dp_data))
            raw == RatSub(q.completeness_score, penalty)
        IN  /\ ~q.overall_quality_score.nan
            /\ 0 <= q.overall_quality_score.n
            /\ q.overall_quality_score.n <= 100 * q.overall_quality_score.d
            /\ q.overall_quality_score = IF RatLess(raw, Num(0)) THEN Num(0) ELSE raw

\* A table whose duplicate penalty exceeds its completeness: the score is 0.
C11_Witness ==
    /\ Analysed
    /\ profile_report[1].overview.duplicate_rows > 0
    /\ RatLess(profile_report[1].quality_metrics.completeness_score,
               Frac(10 * profile_report[1].overview.duplicate_rows, NumRows(dp_data)))
    /\ profile_report[1].quality_metrics.overall_quality_score = Num(0)

\* C12: uniqueness_score is 100 * (1 - d / n) with n the rows and d the rows
\* equal in every column to an earlier row, the d that overview.duplicate_rows
\* reports; 10 rows of which exactly one repeats another give 90.
C12_Uniqueness ==
    Analysed =>
        LET u == profile_report[1].quality_metrics.uniqueness_score
            n == NumRows(dp_data)
            d == Cardinality(RepeatedRows(dp_data))
        IN  /\ profile_report[1].overview.duplicate_rows = d
            /\ u.n * n = 100 * (n - d) * u.d
            /\ n = 10 /\ d = 1 => u = Num(90)

\* The 10-row table with one repeated row was analysed and scored 90.
C12_Witness ==
    /\ Analysed
    /\ NumRows(dp_data) = 10 /\ NumCols(dp_data) = 2
    /\ Cardinality(RepeatedRows(dp_data)) = 1
    /\ profile_report[1].quality_metrics.uniqueness_score = Num(90)

\* --------------------------------------------------------------------------
\* Properties of PipelineGenerator
\* --------------------------------------------------------------------------
StepCall(step) == << step.name, step.function, step.parameters >>

\* C1: pipeline_steps is the sequence of (name, function, parameters) given to
\* add_step, in call order, whatever else was called and also when a step is
\* given twice; no step is removed, reordered or changed, and a pipeline that
\* has a step never becomes empty again.
C1_StepsAreTheAddStepCalls ==
    /\ [](/\ Len(pipeline_steps) = Len(pg_added)
          /\ \A i \in DOMAIN pipeline_steps : StepCall(pipeline_steps[i]) = pg_added[i])
    /\ [][/\ Len(pipeline_steps') >= Len(pipeline_steps)
          /\ SubSeq(pipeline_steps', 1, Len(pipeline_steps)) = pipeline_steps
          /\ (pipeline_steps # <<>> => pipeline_steps' # <<>>)]_vars

\* The same step was added twice and the pipeline then saved to a file.
C1_Witness ==
    /\ Len(pipeline_steps) = 2
    /\ StepCall(pipeline_steps[1]) = StepCall(pipeline_steps[2])
    /\ pg_ret.op = "save_pipeline"
    /\ \E p \in PathPool : fs_files[p].format = "json" /\ Len(fs_files[p].steps) = 2

Saved == pg_ret.op = "save_pipeline"
\* A recorded step as Python holds it: name, function, and the parameters with
\* the Python type of each value.
Recorded(step) ==
    << step.name, step.function,
       [k \in DOMAIN step.parameters |->
           [key |-> step.parameters[k].key, kind |-> ValueKind(step.parameters[k]),
            items |-> step.parameters[k].items]] >>

\* C15: after add_step calls and save_pipeline(path, 'json') to a path whose
\* directory can be made and written, the document at the path parses to a
\* 'steps' list of the recorded steps: as many, in the same order, each with
\* the same name, function and parameters.
C15_JsonRoundTrip ==
    /\ Saved
    /\ pg_ret.format = "json"
    /\ pg_ret.filepath.dir \notin UncreatableDirs \cup UnwritableDirs
    => /\ fs_files[pg_ret.filepath].format = "json"
       /\ LET parsed == JsonLoadSteps(fs_files[pg_ret.filepath].steps) IN
          /\ Len(parsed) = Len(pipeline_steps)
          /\ \A i \in DOMAIN parsed :
               << parsed[i].name, parsed[i].function, parsed[i].parameters >>
                   = Recorded(pipeline_steps[i])

\* C16: save_pipeline returns True or False, False when the directory cannot
\* be made or the file cannot be written, and leaves the recorded steps and
\* the metadata as they were.
C16_SaveReturnsBoolean ==
    /\ [](Saved =>
            /\ pg_ret.value \in BOOLEAN
            /\ pg_ret.filepath.dir \in UncreatableDirs => pg_ret.value = FALSE
            /\ (/\ pg_ret.filepath.dir \in UnwritableDirs
                /\ pg_ret.format \in {"python", "json", "pickle"}) => pg_ret.value = FALSE)
    /\ [][pg_ret'.op = "save_pipeline" =>
            pipeline_steps' = pipeline_steps /\ pipeline_metadata' = pipeline_metadata]_vars

\* A pipeline with a step was saved to a directory that cannot be written:
\* the call returned False.
C16_Witness ==
    /\ Saved
    /\ pipeline_steps # <<>>
    /\ pg_ret.filepath.dir \in UnwritableDirs
    /\ pg_ret.value = FALSE

\* C17: save_pipeline with a supported format and a path without a directory
\* part, as save_pipeline("advanced_pipeline.py", format="python"), writes the
\* file and returns True.
C17_BareFileNameIsSaved ==
    /\ Saved
    /\ pg_ret.filepath.dir = ""
    /\ pg_ret.format \in {"python", "json", "pickle"}
    => /\ pg_ret.value = TRUE
       /\ fs_files[pg_ret.filepath].format = pg_ret.format

\* --------------------------------------------------------------------------
\* Properties of FeatureEngineer
\* --------------------------------------------------------------------------
Returned == fe_ret.op = "create_features" /\ ~fe_ret.raised
\* The table the three feature stages make of the last call's input.
EngineeredNow == Engineered[fe_data.table].data
NumericPredictorNames ==
    { EngineeredNow[i].name :
        i \in { j \in DOMAIN EngineeredNow :
                  /\ EngineeredNow[j].name # fe_data.target
                  /\ IsNumberDtype(EngineeredNow[j].dtype) } }

\* C2: after a create_features call the three fields describe that call only:
\* created_features holds the names this call created, and selected_features and
\* feature_importance hold nothing of an earlier call.
C2_StateDescribesLastCall ==
    Returned =>
        /\ created_features = Engineered[fe_data.table].created
        /\ fe_ret.selection =>
             {feature_importance[i].feature : i \in DOMAIN feature_importance}
                = NumericPredictorNames
        /\ ~fe_ret.selection => selected_features = <<>> /\ feature_importance = <<>>

\* C3: when selection runs, no more than min(max_features, numeric predictors)
\* columns are selected, and the returned table is exactly the selected columns
\* followed by the target column, each as the feature stages left it.
C3_SelectionBound ==
    Returned /\ fe_ret.selection =>
        /\ Len(selected_features) <= Min(max_features, Cardinality(NumericPredictorNames))
        /\ ColumnNames(fe_ret.value) = selected_features \o << fe_data.target >>
        /\ \A k \in DOMAIN selected_features : selected_features[k] \in NumericPredictorNames
        /\ \A k \in DOMAIN fe_ret.value :
             fe_ret.value[k] = ColumnOf(EngineeredNow, fe_ret.value[k].name)

\* Selection kept the one numeric predictor and dropped a string column.
C3_Witness ==
    /\ Returned /\ fe_ret.selection
    /\ selected_features = << "a" >>
    /\ HasColumn(EngineeredNow, "event_time")
    /\ Len(fe_ret.value) = 2

\* C4: create_features does not raise: a date/time-named column that cannot be
\* coerced is skipped, and so is a selection that cannot score the predictors.
C4_NeverRaises ==
    fe_ret.op = "create_features" => ~fe_ret.raised

\* The table the interaction stage is given: the last call's input after the
\* temporal stage.
InteractionInput == CreateTemporalFeatures([data |-> fe_data.table, created |-> <<>>]).data
NumberColumns(data) == SelectSeq(data, LAMBDA c : c.dtype \in {"int32", "int64", "float64"})

\* C13: for every pair i < j of the first min(5, n) numeric columns, in table
\* order, there is a column <c1>_x_<c2> holding the row-wise product, and a
\* column <c1>_div_<c2> holding the row-wise ratio exactly when c2 has no zero;
\* numeric columns after the fifth take no part; every created name is in
\* created_features; a=[1,2,3], b=[2,0,4] give a_x_b=[2,0,12] and no a_div_b.
C13_InteractionFeatures ==
    Returned /\ ~fe_ret.selection =>
        LET out == fe_ret.value
            nums == NumberColumns(InteractionInput)
            limit == IF Len(nums) < 5 THEN Len(nums) ELSE 5
        IN  /\ \A i, j \in DOMAIN nums : i < j =>
                  LET c1 == nums[i]
                      c2 == nums[j]
                      product == c1.name \o "_x_" \o c2.name
                      ratio == c1.name \o "_div_" \o c2.name
                      zero == \E r \in DOMAIN c2.cells : ~c2.cells[r].nan /\ c2.cells[r].n = 0
                  IN  IF j <= limit
                        THEN /\ HasColumn(out, product)
                             /\ \A r \in DOMAIN c1.cells :
                                  ColumnOf(out, product).cells[r] =
                                      IF c1.cells[r].nan \/ c2.cells[r].nan THEN NaN
                                      ELSE Frac(c1.cells[r].n * c2.cells[r].n,
                                                c1.cells[r].d * c2.cells[r].d)
                             /\ \E k \in DOMAIN created_features : created_features[k] = product
                             /\ HasColumn(out, ratio) <=> ~zero
                             /\ ~zero =>
                                  /\ \A r \in DOMAIN c1.cells :
                                       ColumnOf(out, ratio).cells[r] =
                                           IF c1.cells[r].nan \/ c2.cells[r].nan THEN NaN
                                           ELSE Frac(c1.cells[r].n * c2.cells[r].d,
                                                     c1.cells[r].d * c2.cells[r].n)
                                  /\ \E k \in DOMAIN created_features :
                                       created_features[k] = ratio
                        ELSE ~HasColumn(out, product) /\ ~HasColumn(out, ratio)
            /\ fe_data.table = << ColA, ColB >> =>
                  /\ ColumnOf(out, "a_x_b").cells = << Num(2), Num(0), Num(12) >>
                  /\ ~HasColumn(out, "a_div_b")

\* The example table went through create_features: a_x_b is there, a_div_b is not.
C13_Witness ==
    /\ Returned /\ ~fe_ret.selection
    /\ fe_data.table = << ColA, ColB >>
    /\ ColumnOf(fe_ret.value, "a_x_b").cells = << Num(2), Num(0), Num(12) >>
    /\ ~HasColumn(fe_ret.value, "a_div_b")
    /\ \E k \in DOMAIN created_features : created_features[k] = "a_x_b"

\* The table the statistical stage is given: the last call's input after the
\* temporal and the interaction stage.
StatisticalInput ==
    CreateInteractionFeatures(
        CreateTemporalFeatures([data |-> fe_data.table, created |-> <<>>])).data

\* C14: the rolling mean of a column at row r is the mean of the column's values
\* in rows max(first, r - 2)..r, defined from the first row on; the first three
\* numeric columns get one when there are at least three; [10,20,30,40] gives
\* [10,15,20,30].
C14_RollingMean ==
    Returned /\ ~fe_ret.selection =>
        LET out == fe_ret.value
            nums == NumberColumns(StatisticalInput)
        IN  /\ \A i \in DOMAIN nums : i <= 3 /\ Len(nums) >= 3 =>
                  /\ HasColumn(out, nums[i].name \o "_rolling_mean")
                  /\ \A r \in DOMAIN nums[i].cells :
                       LET lo == IF r > 2 THEN r - 2 ELSE 1
                           rows == SubSeq(nums[i].cells, lo, r)
                           mean == ColumnOf(out, nums[i].name \o "_rolling_mean").cells[r]
                       IN  (\A k \in DOMAIN rows : ~rows[k].nan) =>
                               /\ ~mean.nan
                               /\ RatMul(mean, Num(r - lo + 1)) = RatSum(rows)
            /\ HasColumn(fe_data.table, "v") =>
                  ColumnOf(out, "v_rolling_mean").cells = << Num(10), Num(15), Num(20), Num(30) >>

\* The example column went through the statistical stage.
C14_Witness ==
    /\ Returned /\ ~fe_ret.selection
    /\ HasColumn(fe_data.table, "v")
    /\ ColumnOf(fe_data.table, "v").cells = << Num(10), Num(20), Num(30), Num(40) >>
    /\ ColumnOf(fe_ret.value, "v_rolling_mean").cells = << Num(10), Num(15), Num(20), Num(30) >>

DateOrTimeNames == {"order_date", "event_time", "Order_DATE", "updated", "TimeStamp"}
FiveParts == {"year", "month", "day", "dayofweek", "quarter"}
DtAccessors == FiveParts \cup {"hour", "minute", "week", "weekday", "dayofyear"}
PartNames(name, parts) == { name \o "_" \o part : part \in parts }
NamesIn(seq) == { seq[i] : i \in DOMAIN seq }

\* C23: a create_features call adds, for every column whose name holds 'date'
\* or 'time' in any case and whose coercion succeeds, exactly the columns
\* <col>_year, _month, _day, _dayofweek and _quarter and records their names in
\* created_features; for a column whose coercion fails, and for every other
\* column, it adds and records none of them, and it goes on to the columns
\* that follow.
C23_TemporalFeatures ==
    [][ fe_calls' = fe_calls + 1 /\ ~fe_ret'.raised /\ ~fe_ret'.selection =>
          LET data == fe_data'.table
              out == NamesIn(ColumnNames(fe_ret'.value))
              added == NamesIn(SubSeq(created_features', Len(created_features) + 1,
                                      Len(created_features')))
          IN  \A i \in DOMAIN data :
                  LET name == data[i].name
                      expected == IF name \in DateOrTimeNames /\ ToDatetimeOk(data[i])
                                    THEN PartNames(name, FiveParts) ELSE {}
                  IN  /\ out \cap PartNames(name, DtAccessors) = expected
                      /\ added \cap PartNames(name, DtAccessors) = expected
      ]_vars

\* A call met a first date/time column that cannot be coerced and a second that
\* can: only the second got its five columns.
C23_Witness ==
    /\ Returned /\ ~fe_ret.selection
    /\ fe_data.table = << ColEventTime, ColOrderDate >>
    /\ ~HasColumn(fe_ret.value, "event_time_year")
    /\ HasColumn(fe_ret.value, "order_date_quarter")
    /\ \E k \in DOMAIN created_features : created_features[k] = "order_date_quarter"
    /\ \A k \in DOMAIN created_features : created_features[k] # "event_time_year"

\* C24: a create_features call given no target name, a target that is not a
\* column after the feature stages, or a table without a numeric predictor
\* returns the table of the feature stages, every original column and the
\* target included, and leaves selected_features and feature_importance as
\* they were.
C24_NoSelection ==
    [][ fe_calls' = fe_calls + 1 =>
          LET staged == Engineered[fe_data'.table].data
              target == fe_data'.target
              no_target == target = "" \/ target \notin NamesIn(ColumnNames(staged))
              no_numeric == \A i \in DOMAIN staged :
                                staged[i].name = target
                                  \/ staged[i].dtype \notin {"int32", "int64", "float64"}
          IN  no_target \/ no_numeric =>
                  /\ ~fe_ret'.raised /\ ~fe_ret'.selection
                  /\ fe_ret'.value = staged
                  /\ NamesIn(ColumnNames(fe_data'.table)) \subseteq NamesIn(ColumnNames(fe_ret'.value))
                  /\ selected_features' = selected_features
                  /\ feature_importance' = feature_importance
      ]_vars

\* After a call that selected, a call on a table whose only predictor is a
\* string column returned it with its target, the earlier selection still stored.
C24_Witness ==
    /\ Returned /\ ~fe_ret.selection
    /\ fe_calls = 2
    /\ fe_data.table = << ColEventTime, ColLabel >> /\ fe_data.target = "label"
    /\ ColumnNames(fe_ret.value) = << "event_time", "label" >>
    /\ selected_features # <<>> /\ feature_importance # <<>>

\* The table after the temporal stage and after the interaction stage, and the
\* names of their numeric columns in table order, once per input table.
AfterTemporal ==
    [data \in FeatureTables |-> CreateTemporalFeatures([data |-> data, created |-> <<>>]).data]
AfterInteraction ==
    [data \in FeatureTables |->
        CreateInteractionFeatures([data |-> AfterTemporal[data], created |-> <<>>]).data]
NumericAfterTemporal ==
    [data \in FeatureTables |-> ColumnNames(NumberColumns(AfterTemporal[data]))]
NumericAfterInteraction ==
    [data \in FeatureTables |-> ColumnNames(NumberColumns(AfterInteraction[data]))]

\* C29: every stage of a create_features call takes its numeric candidates from
\* the table the stage before it left, in table order, derived columns and the
\* target column included: the first five numeric columns after the temporal
\* stage are multiplied pairwise, the target among them, and the first three
\* numeric columns after the interaction stage get rolling features, so a
\* table of exactly two numeric columns gets them for both columns and for
\* their product.
C29_StagesSeeEarlierStages ==
    [][ fe_calls' = fe_calls + 1 =>
          LET operands == FirstN(NumericAfterTemporal[fe_data'.table], 5)
              rolled == FirstN(NumericAfterInteraction[fe_data'.table], 3)
              inputs == ColumnNames(NumberColumns(fe_data'.table))
              added == NamesIn(SubSeq(created_features', Len(created_features) + 1,
                                      Len(created_features')))
          IN  /\ \A i, j \in DOMAIN operands :
                     i < j => (operands[i] \o "_x_" \o operands[j]) \in added
              /\ fe_data'.target \in NamesIn(operands) /\ Len(operands) > 1 =>
                     \E c \in NamesIn(operands) :
                         \/ (fe_data'.target \o "_x_" \o c) \in added
                         \/ (c \o "_x_" \o fe_data'.target) \in added
              /\ Len(NumericAfterInteraction[fe_data'.table]) >= 3 =>
                     \A k \in DOMAIN rolled :
                         /\ (rolled[k] \o "_rolling_mean") \in added
                         /\ (rolled[k] \o "_rolling_std") \in added
              /\ ColumnNames(fe_data'.table) = inputs /\ Len(inputs) = 2 =>
                     /\ rolled = inputs \o << inputs[1] \o "_x_" \o inputs[2] >>
                     /\ (inputs[1] \o "_x_" \o inputs[2] \o "_rolling_mean") \in added
      ]_vars

\* create_features was called on the table of the two numeric columns a and b
\* with a as the target: a_x_b was created and got rolling features.
C29_Witness ==
    /\ fe_ret.op = "create_features"
    /\ fe_data.table = << ColA, ColB >> /\ fe_data.target = "a"
    /\ {"a_x_b", "a_rolling_mean", "b_rolling_mean", "a_x_b_rolling_mean"}
          \subseteq NamesIn(created_features)

\* --------------------------------------------------------------------------
\* Properties of Config
\* --------------------------------------------------------------------------
\* The key paths of a value, and the value at a key path.
RECURSIVE Paths(_)
Paths(value) ==
    IF ~IsDict(value) THEN {}
    ELSE UNION { {<< k >>} \cup { << k >> \o q : q \in Paths(value.items[k]) } :
                 k \in Keys(value) }
RECURSIVE ValueAt(_, _)
ValueAt(value, path) ==
    IF Len(path) = 1 THEN value.items[path[1]]
    ELSE ValueAt(value.items[path[1]], Tail(path))
SameValue(x, y) == x.kind = y.kind /\ x.v = y.v

Loaded == cfg_ret.op = "load_config"
\* The key paths the file of the last load_config call holds.
UserPaths == Paths(cfg_ret.file.doc)
\* A key on both sides whose two values are not both mappings.
Replaced(path) ==
    /\ path \in Paths(cfg_before) \cap UserPaths
    /\ ~(IsDict(ValueAt(cfg_before, path)) /\ IsDict(ValueAt(cfg_ret.file.doc, path)))

\* C20 as stated: after load_config every key path of the configuration was
\* there before the load, and every key path the file does not hold is still
\* there with the value it had.
C20_OnlyExistingKeyPaths ==
    Loaded =>
        /\ Paths(config) \subseteq Paths(cfg_before)
        /\ \A path \in Paths(cfg_before) \ UserPaths :
             /\ path \in Paths(config)
             /\ SameValue(ValueAt(config, path), ValueAt(cfg_before, path))

\* C20 amended: load_config overrides only keys that exist at the same nesting
\* level. A key on both sides takes the file's value whole unless both values
\* are mappings, which are merged key by key; file keys that are absent from
\* the configuration are ignored. So a key path is new only below a key that
\* was not a mapping and is set to one, a key path is lost only below a mapping
\* that is set to something else, and every other key keeps its value; a load
\* that fails changes nothing.
C20_OverridesExistingKeys ==
    Loaded =>
        /\ Keys(config) = Keys(cfg_before)
        /\ \A path \in Paths(config) :
             \/ path \in Paths(cfg_before)
             \/ \E k \in 1..(Len(path) - 1) : Replaced(SubSeq(path, 1, k))
        /\ \A path \in Paths(cfg_before) :
             \/ \E k \in 1..Len(path) : Replaced(SubSeq(path, 1, k))
             \/ /\ path \in Paths(config)
                /\ SameValue(ValueAt(config, path), ValueAt(cfg_before, path))
        /\ \A path \in UserPaths :
             Replaced(path) => ValueAt(config, path) = ValueAt(cfg_ret.file.doc, path)
        /\ ~IsDict(cfg_ret.file.doc) => config = cfg_before

\* A file with a known key, an unknown nested key and an unknown section was
\* loaded: the known key changed and the unknown ones are not there.
C20_Witness ==
    /\ Loaded
    /\ << "data_cleaning", "unknown_key" >> \in UserPaths
    /\ << "logging" >> \in UserPaths
    /\ config # cfg_before
    /\ ValueAt(config, << "data_cleaning", "outlier_threshold" >>) = Scalar("3.0")
    /\ << "data_cleaning", "unknown_key" >> \notin Paths(config)
    /\ << "logging" >> \notin Paths(config)

None == [kind |-> "none", v |-> "", items |-> <<>>]

\* C28: a Config constructed without a file returns the documented defaults,
\* whatever set and load_config calls were made on instances before it:
\* get('feature_engineering.max_features') is 50, and so for every key.
C28_FreshConfigReturnsDefaults ==
    cfg_ret.op = "init" =>
        /\ Config_get(config, << "feature_engineering", "max_features" >>, None) = Scalar("50")
        /\ \A path \in Paths(DefaultConfig) :
               Config_get(config, path, None) = ValueAt(DefaultConfig, path)

\* --------------------------------------------------------------------------
\* Further properties of the profiler
\* --------------------------------------------------------------------------
DistinctStrings(col) == {col.cells[i].s : i \in {j \in DOMAIN col.cells : ~col.cells[j].nan}}

\* C22: a string column that is not labelled datetime is labelled categorical
\* exactly when its distinct non-missing values are fewer than half the rows
\* (missing rows counted) and fewer than 100, and text otherwise.
C22_CategoricalOrText ==
    Analysed =>
        \A i \in DOMAIN dp_data :
            dp_data[i].dtype = "object" /\ LabelOf(i) # "datetime" =>
                LET distinct == Cardinality(DistinctStrings(dp_data[i]))
                    rows == Len(dp_data[i].cells)
                IN  LabelOf(i) = IF 2 * distinct < rows /\ distinct < 100
                                   THEN "categorical" ELSE "text"

\* A table was analysed with a column of exactly 100 distinct values in more
\* than 200 rows, labelled text, next to one of 99, labelled categorical.
C22_Witness ==
    /\ Analysed
    /\ \E i, j \in DOMAIN dp_data :
         /\ dp_data[i].dtype = "object" /\ dp_data[j].dtype = "object"
         /\ Cardinality(DistinctStrings(dp_data[i])) = 100
         /\ 2 * 100 < Len(dp_data[i].cells)
         /\ LabelOf(i) = "text"
         /\ Cardinality(DistinctStrings(dp_data[j])) = 99
         /\ LabelOf(j) = "categorical"

\* C27: for a table of at least one row and one column, the total missing
\* percentage and every per-column missing percentage lie between 0 and 100;
\* the per-column percentages are those of the columns with a missing cell,
\* each 100 * (missing cells of the column) / (rows).
C27_MissingPercentages ==
    Analysed /\ NumRows(dp_data) >= 1 /\ NumCols(dp_data) >= 1 =>
        LET mv == profile_report[1].missing_values
            InRange(x) == ~x.nan /\ 0 <= x.n /\ x.n <= 100 * x.d
        IN  /\ InRange(mv.missing_percentage_total)
            /\ \A k \in DOMAIN mv.columns_missing_percentage :
                   LET e == mv.columns_missing_percentage[k] IN
                   /\ InRange(e.percentage)
                   /\ \E i \in DOMAIN dp_data :
                         /\ dp_data[i].name = e.column
                         /\ \E r \in DOMAIN dp_data[i].cells : dp_data[i].cells[r].nan
                         /\ e.percentage.n * NumRows(dp_data)
                               = 100 * MissingCount(dp_data[i]) * e.percentage.d
            /\ \A i \in DOMAIN dp_data :
                   MissingCount(dp_data[i]) > 0 =>
                       \E k \in DOMAIN mv.columns_missing_percentage :
                           mv.columns_missing_percentage[k].column = dp_data[i].name

\* A table of two columns, one of them with one missing cell in 10 rows: its
\* entry is 10 and the other column has none.
C27_Witness ==
    /\ Analysed
    /\ NumCols(dp_data) = 2 /\ NumRows(dp_data) = TestRows
    /\ Len(profile_report[1].missing_values.columns_missing_percentage) = 1
    /\ profile_report[1].missing_values.columns_missing_percentage[1].percentage = Num(10)

\* --------------------------------------------------------------------------
\* Further properties of PipelineGenerator
\* --------------------------------------------------------------------------
\* A generate_python_code call that follows another with no step added
\* between; the clock moves between calls, not within one.
RenderedAgain ==
    /\ pg_ret.op = "generate_python_code"
    /\ pg_ret'.op = "generate_python_code"
    /\ pipeline_steps' = pipeline_steps
    /\ clock' = clock

\* C25 as stated: two generate_python_code calls on an unchanged generator
\* return the same text, whenever they are made.
C25_SameTextAtAnyTime ==
    [][ RenderedAgain => pg_ret'.value = pg_ret.value ]_vars

\* C25, amended: two generate_python_code calls on an unchanged generator
\* return texts that agree in every line but the second, which holds the
\* time of the call.
C25_SameTextButGeneratedOn ==
    [][ RenderedAgain =>
          /\ Len(pg_ret'.value) = Len(pg_ret.value)
          /\ \A k \in DOMAIN pg_ret.value : k # 2 => pg_ret'.value[k] = pg_ret.value[k]
          /\ pg_ret'.value[2] = "# Generated on: " \o ToString(clock')
      ]_vars

\* A text was rendered at the later instant from steps recorded at the earlier.
C25_Witness ==
    /\ pg_ret.op = "generate_python_code"
    /\ pipeline_steps # <<>> /\ pipeline_steps[1].timestamp = 0
    /\ clock = 1
    /\ pg_ret.value[2] = "# Generated on: 1"

RecognizedFunctions == {"data_profiling", "data_cleaning", "feature_engineering"}
StepComment(i) == "    # Step " \o ToString(i) \o ": " \o pipeline_steps[i].name
HeaderLines == 16
FooterLines == 4

\* C26 as stated: a step whose function identifier is not recognized has no
\* line at all in the rendered text.
C26_UnrecognizedStepHasNoLine ==
    pg_ret.op = "generate_python_code" =>
        \A i \in DOMAIN pipeline_steps :
            pipeline_steps[i].function \notin RecognizedFunctions =>
                \A k \in DOMAIN pg_ret.value : pg_ret.value[k] # StepComment(i)

\* C26, amended: between the header and the footer the text holds one block
\* per recorded step, in recorded order; the block of a step whose function
\* identifier is not recognized is its comment line '# Step i: name' and an
\* empty line, with no code line.
C26_UnrecognizedStepHasCommentOnly ==
    pg_ret.op = "generate_python_code" =>
        SubSeq(pg_ret.value, HeaderLines + 1, Len(pg_ret.value) - FooterLines)
            = Flatten([i \in DOMAIN pipeline_steps |->
                          IF pipeline_steps[i].function \in RecognizedFunctions
                            THEN StepCode(i, pipeline_steps[i])
                            ELSE << StepComment(i), "" >>])

\* A text was rendered from an unrecognized step followed by a cleaning step.
C26_Witness ==
    /\ pg_ret.op = "generate_python_code"
    /\ Len(pipeline_steps) = 2
    /\ pipeline_steps[1].function = "custom_step"
    /\ pipeline_steps[2].function = "data_cleaning"
    /\ pg_ret.value[HeaderLines + 1] = "    # Step 1: Custom"
    /\ pg_ret.value[HeaderLines + 2] = ""
    /\ pg_ret.value[HeaderLines + 3] = "    # Step 2: Data Cleaning"

C21_ValidateDataframe ==
    vd_ret.op = "validate_dataframe" =>
        /\ vd_ret.value \in BOOLEAN
        /\ vd_ret.value =
              (/\ vd_ret.df.kind = "DataFrame"
               /\ vd_ret.df.rows >= vd_ret.min_rows
               /\ \A i \in DOMAIN vd_ret.required_columns :
                     \E j \in DOMAIN vd_ret.df.columns :
                         vd_ret.df.columns[j] = vd_ret.required_columns[i]
               /\ vd_ret.df.rows > 0 /\ Len(vd_ret.df.columns) > 0)

\* A table with rows and no column passes the other tests and is refused.
C21_Witness ==
    /\ vd_ret.op = "validate_dataframe"
    /\ vd_ret.df.kind = "DataFrame"
    /\ vd_ret.df.rows >= vd_ret.min_rows /\ vd_ret.df.rows > 0
    /\ vd_ret.df.columns = <<>>
    /\ vd_ret.required_columns = <<>>
    /\ vd_ret.value = FALSE

====
